---- MODULE Spec2Model ----
(***************************************************************************)
(* Agents-management backend: the agent / document commands               *)
(* (createAgent, uploadDocument, deleteDocument, deleteAgent), the two     *)
(* MongoDB repositories and the S3 file storage they drive.                *)
(*                                                                         *)
(* Strings are sequences of one-character strings.  A request is a call    *)
(* record held by an async task p; every awaited repository / storage call *)
(* of a command is one atomic step of that task.                           *)
(***************************************************************************)
EXTENDS Integers, Sequences, FiniteSets, TLC

\* ------------------------------------------------------------------ bounds
\* number of agent ids uuid4 hands out in a run
MaxAgents == 2
\* number of document ids uuid4 hands out in a run
MaxDocs == 2
\* largest value the wall clock reaches in a run
MaxClock == 1
\* number of requests served in a run
MaxCalls == 4
MaxConcCalls == 3

\* the async tasks serving requests
Procs == {"p1", "p2"}

\* ------------------------------------------------------- program constants
MAX_FILE_SIZE == 20 * 1024 * 1024
MAX_NAME_LEN == 30
MIN_PROMPT_LEN == 10
MAX_PROMPT_LEN == 2000
MAX_FILENAME_LEN == 100

\* ------------------------------------------------------------------ strings
Rep(c, n) == [i \in 1..n |-> c]

Null == [null |-> TRUE]

\* Python's None where a string may stand: a value no string is equal to
None == <<"None">>

IsSpace(c) == c = " "

RECURSIVE LStrip(_)
LStrip(s) == IF s # <<>> /\ IsSpace(Head(s)) THEN LStrip(Tail(s)) ELSE s

RECURSIVE RStrip(_)
RStrip(s) == IF s # <<>> /\ IsSpace(s[Len(s)]) THEN RStrip(SubSeq(s, 1, Len(s) - 1)) ELSE s

\* str.strip()
Strip(s) == RStrip(LStrip(s))

LowerChar(c) ==
    CASE c = "P" -> "p"
      [] c = "D" -> "d"
      [] c = "F" -> "f"
      [] c = "R" -> "r"
      [] c = "B" -> "b"
      [] c = "X" -> "x"
      [] c = "Y" -> "y"
      [] OTHER -> c

\* str.lower()
Lower(s) == IF s = <<>> THEN <<>> ELSE [i \in 1..Len(s) |-> LowerChar(s[i])]

\* str.replace(".", "")
RemoveDots(s) == SelectSeq(s, LAMBDA c : c # ".")

\* str.rfind(c), 1-based, 0 when absent
RECURSIVE RFind(_, _)
RFind(s, c) ==
    IF s = <<>> THEN 0
    ELSE IF s[Len(s)] = c THEN Len(s)
    ELSE RFind(SubSeq(s, 1, Len(s) - 1), c)

\* os.path.splitext(p)[1]: the last dot after the last separator starts the
\* extension unless only dots precede it in the file name
SplitExt(p) ==
    LET sepIndex == RFind(p, "/")
        dotIndex == RFind(p, ".")
    IN  IF dotIndex > sepIndex /\ \E i \in (sepIndex + 1)..(dotIndex - 1) : p[i] # "."
        THEN SubSeq(p, dotIndex, Len(p))
        ELSE <<>>

\* ------------------------------------------------------------ DocumentType
PDF == <<"p", "d", "f">>
DOCX == <<"d", "o", "c", "x">>
XLSX == <<"x", "l", "s", "x">>
PPTX == <<"p", "p", "t", "x">>
TXT == <<"t", "x", "t">>
CSV == <<"c", "s", "v">>

DocumentType == {PDF, DOCX, XLSX, PPTX, TXT, CSV}

\* DocumentType.from_extension: ok = FALSE stands for the ValueError
from_extension(extension) ==
    LET e == RemoveDots(Lower(extension))
    IN  IF e \in DocumentType THEN [ok |-> TRUE, value |-> e]
        ELSE [ok |-> FALSE, value |-> <<>>]

\* DocumentType.is_valid_extension: False for None, else whether
\* from_extension raises
is_valid_extension(extension) ==
    IF extension = None THEN FALSE ELSE from_extension(extension).ok

\* --------------------------------------------------------------- entities
\* a variant that refuses a name of exactly the maximum length
validate_name_Strict(name) ==
    IF name = <<>> THEN "ValueError"
    ELSE IF Len(name) >= MAX_NAME_LEN THEN "ValueError"
    ELSE "none"

\* Agent._validate_name
validate_name(name) ==
    IF name = <<>> THEN "ValueError"
    ELSE IF Len(name) > MAX_NAME_LEN THEN "ValueError"
    ELSE "none"

\* Agent._validate_prompt (the check part; the strip is in AgentNew)
validate_prompt(prompt) ==
    IF prompt = <<>> THEN "ValueError"
    ELSE IF Len(prompt) < MIN_PROMPT_LEN THEN "ValueError"
    ELSE IF Len(prompt) > MAX_PROMPT_LEN THEN "ValueError"
    ELSE "none"

\* Agent(...) : the dataclass constructor followed by __post_init__
AgentNew(id, name, prompt, created_at, updated_at, documents_count) ==
    IF validate_name(name) # "none" THEN [err |-> "ValueError", val |-> Null]
    ELSE IF validate_prompt(prompt) # "none" THEN [err |-> "ValueError", val |-> Null]
    ELSE [err |-> "none",
          val |-> [id |-> id, name |-> name, prompt |-> Strip(prompt),
                   created_at |-> created_at, updated_at |-> updated_at,
                   documents_count |-> documents_count]]

\* Agent.update: _validate_name and _validate_prompt look at self.name and
\* self.prompt, the values the agent has BEFORE the assignment; val is the
\* agent as the call leaves it
AgentUpdate(agent, name, prompt, now) ==
    LET named == IF name # None THEN [agent EXCEPT !.name = Strip(name)] ELSE agent
        prompted == IF prompt # None THEN [named EXCEPT !.prompt = Strip(prompt)]
                    ELSE named
    IN  IF name # None /\ validate_name(agent.name) # "none"
        THEN [err |-> "ValueError", val |-> agent]
        ELSE IF prompt # None /\ validate_prompt(named.prompt) # "none"
        THEN [err |-> "ValueError", val |-> named]
        ELSE [err |-> "none", val |-> [prompted EXCEPT !.updated_at = now]]

\* Document._validate_filename (the check part)
validate_filename(filename) ==
    IF filename = <<>> THEN "ValueError"
    ELSE IF Len(filename) > MAX_FILENAME_LEN THEN "ValueError"
    ELSE "none"

\* Document._validate_file_size
validate_file_size(file_size) ==
    IF file_size <= 0 THEN "ValueError"
    ELSE IF file_size > MAX_FILE_SIZE THEN "ValueError"
    ELSE "none"

\* Document(...) : the dataclass constructor followed by __post_init__
DocumentNew(id, agent_id, filename, document_type, s3_url, s3_key, file_size, created_at, updated_at) ==
    IF validate_filename(filename) # "none" THEN [err |-> "ValueError", val |-> Null]
    ELSE IF validate_file_size(file_size) # "none" THEN [err |-> "ValueError", val |-> Null]
    ELSE [err |-> "none",
          val |-> [id |-> id, agent_id |-> agent_id, filename |-> Strip(filename),
                   document_type |-> document_type, s3_url |-> s3_url, s3_key |-> s3_key,
                   file_size |-> file_size, created_at |-> created_at,
                   updated_at |-> updated_at]]

\* ------------------------------------------------------------------ state
VARIABLES
    agents,       \* MongoDB collection "agents": _id -> stored model
    documents,    \* MongoDB collection "documents": _id -> stored model
    bucket,       \* S3 bucket: key -> stored object
    nextAgentId,  \* how many agent ids uuid4 has produced
    nextDocId,    \* how many document ids uuid4 has produced
    clock,        \* datetime.now()
    served,       \* how many requests have been accepted
    clean,        \* no request so far has ended by raising
    calls         \* per task: the request it serves and its locals

vars == <<agents, documents, bucket, nextAgentId, nextDocId, clock, served, clean, calls>>

\* the ids a request can name (uuid strings, compared only for equality)
AgentIds == 1..MaxAgents
DocIds == 1..MaxDocs

Put(f, k, v) == [x \in (DOMAIN f) \cup {k} |-> IF x = k THEN v ELSE f[x]]
Remove(f, k) == [x \in (DOMAIN f) \ {k} |-> f[x]]
Restrict(f, S) == [x \in S |-> f[x]]
Empty == [x \in {} |-> Null]

\* ---------------------------------------------------- MongoAgentRepository
\* _to_model
AgentToModel(entity) ==
    [_id |-> entity.id, name |-> entity.name, prompt |-> entity.prompt,
     documents_count |-> entity.documents_count,
     created_at |-> entity.created_at, updated_at |-> entity.updated_at]

\* model.get("document_count", 0)
GetDocumentCount(model) ==
    IF "document_count" \in DOMAIN model THEN model["document_count"] ELSE 0

\* _to_domain
AgentToDomain(model) ==
    AgentNew(model._id, model.name, model.prompt, model.created_at,
             model.updated_at, GetDocumentCount(model))

\* get_agent_by_id: val = Null is Python's None
get_agent_by_id(coll, agent_id) ==
    IF agent_id \in DOMAIN coll THEN AgentToDomain(coll[agent_id])
    ELSE [err |-> "none", val |-> Null]

\* get_agent_by_name: find_one({"name": name})
get_agent_by_name(coll, name) ==
    IF \E i \in DOMAIN coll : coll[i].name = name
    THEN AgentToDomain(coll[CHOOSE i \in DOMAIN coll : coll[i].name = name])
    ELSE [err |-> "none", val |-> Null]

\* a variant without the unique index
AgentNameIndexAllows_NoIndex(coll, model) == TRUE

\* the unique index on agents.name (connection.py create_indexes)
AgentNameIndexAllows(coll, model) ==
    \A i \in DOMAIN coll : i # model._id => coll[i].name # model.name

\* save_agent: replace_one(..., upsert=True); DuplicateKeyError when the
\* unique name index rejects the write
save_agent(coll, agent) ==
    LET model == AgentToModel(agent)
    IN  IF AgentNameIndexAllows(coll, model)
        THEN [err |-> "none", coll |-> Put(coll, model._id, model)]
        ELSE [err |-> "DuplicateKeyError", coll |-> coll]

\* delete_agent: deleted_count > 0
delete_agent(coll, agent_id) ==
    [result |-> agent_id \in DOMAIN coll, coll |-> Remove(coll, agent_id)]

\* ------------------------------------------------- MongoDocumentRepository
\* _to_model
DocToModel(entity) ==
    [_id |-> entity.id, agent_id |-> entity.agent_id, filename |-> entity.filename,
     document_type |-> entity.document_type, s3_url |-> entity.s3_url,
     s3_key |-> entity.s3_key, file_size |-> entity.file_size,
     created_at |-> entity.created_at, updated_at |-> entity.updated_at]

\* _to_domain
DocToDomain(model) ==
    DocumentNew(model._id, model.agent_id, model.filename, model.document_type,
                model.s3_url, model.s3_key, model.file_size, model.created_at,
                model.updated_at)

\* a variant without the unique index
DocKeyIndexAllows_NoIndex(coll, model) == TRUE

\* the unique index on documents.s3_key (connection.py create_indexes)
DocKeyIndexAllows(coll, model) ==
    \A i \in DOMAIN coll : i # model._id => coll[i].s3_key # model.s3_key

\* save: replace_one(..., upsert=True); DuplicateKeyError when the unique
\* s3_key index rejects the write
save_document(coll, document) ==
    LET model == DocToModel(document)
    IN  IF DocKeyIndexAllows(coll, model)
        THEN [err |-> "none", coll |-> Put(coll, model._id, model)]
        ELSE [err |-> "DuplicateKeyError", coll |-> coll]

\* find_by_id
find_by_id(coll, document_id) ==
    IF document_id \in DOMAIN coll THEN DocToDomain(coll[document_id])
    ELSE [err |-> "none", val |-> Null]

\* the rows find({"agent_id": ...}) matches
RowsOfAgent(coll, agent_id) == {i \in DOMAIN coll : coll[i].agent_id = agent_id}

\* find_by_agent_id: the documents of an agent (as a set; the code returns
\* them as a list sorted by created_at)
find_by_agent_id(coll, agent_id) ==
    {DocToDomain(coll[i]).val : i \in RowsOfAgent(coll, agent_id)}

\* count_by_agent_id
count_by_agent_id(coll, agent_id) == Cardinality(RowsOfAgent(coll, agent_id))

\* a variant that answers True for an id without a row
delete_document_AlwaysTrue(coll, document_id) ==
    [result |-> TRUE, coll |-> Remove(coll, document_id)]

\* delete: deleted_count > 0
delete_document(coll, document_id) ==
    [result |-> document_id \in DOMAIN coll, coll |-> Remove(coll, document_id)]

\* a variant that removes no row
delete_by_agent_id_Nothing(coll, agent_id) == [result |-> 0, coll |-> coll]

\* delete_by_agent_id: deleted_count
delete_by_agent_id(coll, agent_id) ==
    [result |-> count_by_agent_id(coll, agent_id),
     coll |-> Restrict(coll, (DOMAIN coll) \ RowsOfAgent(coll, agent_id))]

\* ------------------------------------------------------------ S3FileStorage
\* f"agents/{agent_id}/{filename}" ; the folder key has an empty file name
S3Key(agent_id, filename) == <<"agents", agent_id, filename>>
FolderKey(agent_id) == <<"agents", agent_id, <<>>>>

\* f"https://{bucket}.s3.{region}.amazonaws.com/{key}"
S3Url(key) == <<"https", key>>

\* key.startswith(prefix) for a folder prefix
HasPrefix(key, prefix) == key[1] = prefix[1] /\ key[2] = prefix[2]

KeysWithPrefix(b, prefix) == {k \in DOMAIN b : HasPrefix(k, prefix)}

\* a variant that keeps the object a key already has
upload_file_KeepFirst(b, file, key, content_type, metadata) ==
    [bucket |-> IF key \in DOMAIN b THEN b
                ELSE Put(b, key, [body |-> file, content_type |-> content_type,
                                  metadata |-> metadata]),
     meta |-> [key |-> key, url |-> S3Url(key), content_type |-> content_type]]

\* upload_file: put the object, then head_object; FileMetadata(key, url, ...)
upload_file(b, file, key, content_type, metadata) ==
    [bucket |-> Put(b, key, [body |-> file, content_type |-> content_type,
                              metadata |-> metadata]),
     meta |-> [key |-> key, url |-> S3Url(key), content_type |-> content_type]]

\* create_folder: put_object of an empty body under the folder key
create_folder(b, folder_key) ==
    Put(b, folder_key, [body |-> "", content_type |-> "application/x-directory",
                        metadata |-> Null])

\* sanitize_filename_for_s3_metadata on the ASCII alphabet of the model
SanitizeChar(c) == IF c \in {"<", ">", ":", "/", "|", "?", "*"} THEN "_" ELSE c

sanitize_filename_for_s3_metadata(filename) ==
    IF filename = <<>> THEN <<"unknown_file">>
    ELSE LET t == [i \in 1..Len(filename) |-> SanitizeChar(filename[i])]
         IN  IF Strip(t) = <<>> THEN <<"sanitized_file">> ELSE Strip(t)

\* ---------------------------------------------------------------- requests
Idle ==
    [op |-> "none", pc |-> "idle", arg |-> Null, agent |-> Null, document |-> Null,
     found |-> {}, meta |-> Null, result |-> Null, err |-> "none",
     faults |-> {}, nBlob |-> 0, nDocSave |-> 0, nAgentSave |-> 0, nLookup |-> 0,
     pre |-> Null]

\* the stores as a request finds them
Snapshot == [agents |-> agents, documents |-> documents, bucket |-> bucket]

NewCall(op, arg) == [Idle EXCEPT !.op = op, !.arg = arg, !.pre = Snapshot]

\* the request ends by raising err
Raise(c, e) == [c EXCEPT !.pc = "done", !.err = e]

\* the request ends by returning r
Return(c, r) == [c EXCEPT !.pc = "done", !.result = r]

Init ==
    /\ agents = Empty
    /\ documents = Empty
    /\ bucket = Empty
    /\ nextAgentId = 0
    /\ nextDocId = 0
    /\ clock = 0
    /\ served = 0
    /\ clean = TRUE
    /\ calls = [p \in Procs |-> Idle]

\* ------------------------------------------------------------------ inputs
NameBot == <<"B", "o", "t">>
NameMax == Rep("X", MAX_NAME_LEN)
NameTooLong == Rep("X", MAX_NAME_LEN + 1)
Names == {NameBot, NameMax, NameTooLong, <<>>}

PromptMin == Rep("Y", MIN_PROMPT_LEN)
PromptPadded == <<" ">> \o PromptMin
PromptShort == Rep("Y", MIN_PROMPT_LEN - 1)
Prompts == {PromptMin, PromptPadded, PromptShort}

FileReport == <<"r", ".", "p", "d", "f">>
FileUpper == <<"R", ".", "P", "D", "F">>
FileExe == <<"m", ".", "e", "x", "e">>
FileNoExt == <<"n">>
FileNames == {FileReport, FileUpper, FileExe, FileNoExt}

FileSizes == {0, MAX_FILE_SIZE, MAX_FILE_SIZE + 1}
ContentTypes == {"application/pdf", "application/x-executable"}
FileBodies == {"f1"}

UploadDTOs ==
    [agent_id : AgentIds, filename : FileNames, file : FileBodies,
     content_type : ContentTypes, file_size : FileSizes]

Max(a, b) == IF a >= b THEN a ELSE b

\* the other stores stay as they are
OnlyCalls == UNCHANGED <<agents, documents, bucket, nextAgentId, nextDocId, clock>>

\* ------------------------------------------------- CreateAgentCommand.execute
\* a variant that validates the entity before it looks the name up
CreateAgentChecks_ValidateFirst(coll, name, prompt, id, now) ==
    LET existing_agent == get_agent_by_name(coll, name)
        agent == AgentNew(id, name, prompt, now, now, 0)
    IN  IF agent.err # "none"
        THEN [err |-> agent.err, val |-> Null, lookups |-> 0]
        ELSE IF existing_agent.err # "none"
        THEN [err |-> existing_agent.err, val |-> Null, lookups |-> 1]
        ELSE IF existing_agent.val # Null
        THEN [err |-> "DuplicateAgentName", val |-> Null, lookups |-> 1]
        ELSE [err |-> "none", val |-> agent.val, lookups |-> 1]

\* get_agent_by_name, the duplicate check and Agent.create; lookups is the
\* number of calls of get_agent_by_name made on the way
CreateAgentChecks(coll, name, prompt, id, now) ==
    LET existing_agent == get_agent_by_name(coll, name)
        agent == AgentNew(id, name, prompt, now, now, 0)
    IN  IF existing_agent.err # "none"
        THEN [err |-> existing_agent.err, val |-> Null, lookups |-> 1]
        ELSE IF existing_agent.val # Null
        THEN [err |-> "DuplicateAgentName", val |-> Null, lookups |-> 1]
        ELSE [err |-> agent.err, val |-> agent.val, lookups |-> 1]

\* AgentResponseDTO of createAgent
AgentResponse(a) ==
    [id |-> a.id, name |-> a.name, prompt |-> a.prompt,
     documents_count |-> a.documents_count,
     created_at |-> a.created_at, updated_at |-> a.updated_at]

CreateAgentStart(p, names, prompts) ==
    \E name \in names, prompt \in prompts :
        LET r == CreateAgentChecks(agents, name, prompt, nextAgentId + 1, clock)
            c == [NewCall("createAgent", [name |-> name, prompt |-> prompt])
                     EXCEPT !.nLookup = r.lookups]
        IN  /\ calls[p].pc = "idle"
            /\ r.err = "none" => nextAgentId < MaxAgents
            /\ calls' = [calls EXCEPT ![p] =
                    IF r.err # "none" THEN Raise(c, r.err)
                    ELSE [c EXCEPT !.pc = "c_save", !.agent = r.val]]
            /\ nextAgentId' = IF r.err = "none" THEN nextAgentId + 1 ELSE nextAgentId
            /\ UNCHANGED <<agents, documents, bucket, nextDocId, clock>>

CreateAgentSave(p) ==
    \E fail \in BOOLEAN :
        LET c == [calls[p] EXCEPT !.nAgentSave = @ + 1]
            r == save_agent(agents, c.agent)
        IN  /\ calls[p].pc = "c_save"
            /\ IF fail THEN /\ calls' = [calls EXCEPT ![p] = Raise(c, "DatabaseError")]
                            /\ UNCHANGED agents
               ELSE IF r.err # "none"
                    THEN /\ calls' = [calls EXCEPT ![p] = Raise(c, r.err)]
                         /\ UNCHANGED agents
                    ELSE /\ calls' = [calls EXCEPT ![p] = [c EXCEPT !.pc = "c_folder"]]
                         /\ agents' = r.coll
            /\ UNCHANGED <<documents, bucket, nextAgentId, nextDocId, clock>>

\* create_folder is optional: a False result or an exception is only logged
CreateAgentFolder(p) ==
    \E outcome \in {"ok", "false", "raise"} :
        LET c == [calls[p] EXCEPT !.nBlob = @ + 1,
                                  !.faults = IF outcome = "ok" THEN @ ELSE @ \cup {"create_folder"}]
        IN  /\ calls[p].pc = "c_folder"
            /\ bucket' = IF outcome = "ok" THEN create_folder(bucket, FolderKey(c.agent.id))
                         ELSE bucket
            /\ calls' = [calls EXCEPT ![p] = Return(c, AgentResponse(c.agent))]
            /\ UNCHANGED <<agents, documents, nextAgentId, nextDocId, clock>>

\* dto.file_size > self.MAX_FILE_SIZE
FileSizeExceeded(file_size) == file_size > MAX_FILE_SIZE

\* a variant that checks the file type before it looks at the agent
UploadChecks_TypeFirst(agent, dto) ==
    IF ~is_valid_extension(SplitExt(dto.filename)) THEN "InvalidFileType"
    ELSE IF agent.err # "none" THEN agent.err
    ELSE IF agent.val = Null THEN "AgentNotFound"
    ELSE IF FileSizeExceeded(dto.file_size) THEN "FileSizeExceeded"
    ELSE "none"

\* the checks made before the upload to S3, in the order of the code
UploadChecks(agent, dto) ==
    IF agent.err # "none" THEN agent.err
    ELSE IF agent.val = Null THEN "AgentNotFound"
    ELSE IF ~is_valid_extension(SplitExt(dto.filename)) THEN "InvalidFileType"
    ELSE IF FileSizeExceeded(dto.file_size) THEN "FileSizeExceeded"
    ELSE "none"

\* a variant that builds the key from the lower-cased file name
UploadKey_Lowered(dto) == S3Key(dto.agent_id, Lower(dto.filename))

\* s3_key = f"agents/{dto.agent_id}/{dto.filename}"
UploadKey(dto) == S3Key(dto.agent_id, dto.filename)

\* the metadata dict sent with the object
UploadMetadata(dto) ==
    [agent_id |-> dto.agent_id,
     original_filename |-> sanitize_filename_for_s3_metadata(dto.filename)]

\* Document.create(...) from the request and the FileMetadata of the upload
UploadDocumentCreate(dto, meta, id, now) ==
    DocumentNew(id, dto.agent_id, dto.filename, from_extension(SplitExt(dto.filename)).value,
                meta.url, meta.key, dto.file_size, now, now)

\* a variant that forgets the increment
IncrementCount_Forgotten(agent) == agent

\* agent.documents_count += 1
IncrementCount(agent) == [agent EXCEPT !.documents_count = @ + 1]

\* DocumentResponseDTO (file_size_mb, a rounded float, is left out)
DocumentResponse(d) ==
    [id |-> d.id, agent_id |-> d.agent_id, filename |-> d.filename,
     document_type |-> d.document_type, file_url |-> d.s3_url, s3_key |-> d.s3_key,
     file_size |-> d.file_size, created_at |-> d.created_at]

UploadStart(p, dtos) ==
    \E dto \in dtos :
        LET agent == get_agent_by_id(agents, dto.agent_id)
            e == UploadChecks(agent, dto)
            c == NewCall("upload", dto)
        IN  /\ calls[p].pc = "idle"
            /\ nextDocId < MaxDocs
            /\ calls' = [calls EXCEPT ![p] =
                    IF e # "none" THEN Raise(c, e)
                    ELSE [c EXCEPT !.pc = "u_blob", !.agent = agent.val]]
            /\ OnlyCalls

\* a variant that swallows the failure of upload_file
UploadBlobError_Swallowed(outcome, d) == d.err

\* how the step "upload_file, then Document.create" ends: a failure of
\* upload_file is not caught, then Document.create may raise ValueError
UploadBlobError(outcome, d) ==
    IF outcome # "ok" THEN "StorageException" ELSE d.err

\* upload_file, then Document.create.  upload_file raises StorageException
\* either before the object is stored or after it (head_object failed)
UploadBlob(p) ==
    \E outcome \in {"ok", "raise", "head_raise"} :
        LET c == [calls[p] EXCEPT !.nBlob = @ + 1,
                                  !.faults = IF outcome = "ok" THEN @ ELSE @ \cup {"upload_file"}]
            dto == c.arg
            up == upload_file(bucket, dto.file, UploadKey(dto), dto.content_type, UploadMetadata(dto))
            d == UploadDocumentCreate(dto, up.meta, nextDocId + 1, clock)
        IN  /\ calls[p].pc = "u_blob"
            /\ nextDocId < MaxDocs
            /\ bucket' = IF outcome = "raise" THEN bucket ELSE up.bucket
            /\ IF UploadBlobError(outcome, d) # "none"
               THEN /\ calls' = [calls EXCEPT ![p] =
                           Raise([c EXCEPT !.meta = IF outcome = "ok" THEN up.meta ELSE @],
                                 UploadBlobError(outcome, d))]
                    /\ UNCHANGED nextDocId
               ELSE /\ calls' = [calls EXCEPT ![p] =
                           [c EXCEPT !.pc = "u_save_doc", !.meta = up.meta, !.document = d.val]]
                    /\ nextDocId' = nextDocId + 1
            /\ UNCHANGED <<agents, documents, nextAgentId, clock>>

\* a variant without the "not saved_document" check
UploadSaveError_NoCheck(outcome, r) ==
    IF outcome = "raise" THEN "DatabaseError" ELSE r.err

\* how document_repository.save and the check of its result end: an
\* exception of the repository is not caught, and "not saved_document"
\* raises Exception
UploadSaveError(outcome, r) ==
    IF outcome = "raise" THEN "DatabaseError"
    ELSE IF outcome = "none" THEN "Exception"
    ELSE r.err

\* document_repository.save, the check of its result, and the increment of
\* the counter on the agent read at the start.  The repository port may
\* raise or hand back None (nothing written)
UploadSaveDocument(p) ==
    \E outcome \in {"ok", "raise", "none"} :
        LET r == save_document(documents, calls[p].document)
            e == UploadSaveError(outcome, r)
            c == [calls[p] EXCEPT !.nDocSave = @ + 1,
                                  !.faults = IF outcome = "ok" /\ r.err = "none" THEN @
                                             ELSE @ \cup {"save"}]
        IN  /\ calls[p].pc = "u_save_doc"
            /\ documents' = IF outcome = "ok" THEN r.coll ELSE documents
            /\ calls' = [calls EXCEPT ![p] =
                    IF e # "none" THEN Raise(c, e)
                    ELSE [c EXCEPT !.pc = "u_save_agent", !.agent = IncrementCount(c.agent)]]
            /\ UNCHANGED <<agents, bucket, nextAgentId, nextDocId, clock>>

\* a variant that adds 1 to the counter stored at the time of the save
UploadAgentToSave_Reread(coll, agent) ==
    IF agent.id \in DOMAIN coll
    THEN [agent EXCEPT !.documents_count = coll[agent.id].documents_count + 1]
    ELSE agent

\* the agent handed to save_agent: the object read at the start of the
\* command, whatever the collection holds by now
UploadAgentToSave(coll, agent) == agent

\* a variant that logs a failure of the final save_agent and answers
UploadCounterError_Swallowed(fail, r) == "none"

\* how the final save_agent ends: it is not inside a try/except, so an
\* exception of the repository leaves the command
UploadCounterError(fail, r) == IF fail THEN "DatabaseError" ELSE r.err

\* save_agent(agent) and the answer
UploadSaveAgent(p) ==
    \E fail \in BOOLEAN :
        LET c == [calls[p] EXCEPT !.nAgentSave = @ + 1,
                                  !.faults = IF fail THEN @ \cup {"save_agent"} ELSE @]
            r == save_agent(agents, UploadAgentToSave(agents, c.agent))
            e == UploadCounterError(fail, r)
        IN  /\ calls[p].pc = "u_save_agent"
            /\ agents' = IF fail \/ r.err # "none" THEN agents ELSE r.coll
            /\ calls' = [calls EXCEPT ![p] =
                    IF e # "none" THEN Raise(c, e)
                    ELSE Return(c, DocumentResponse(c.document))]
            /\ UNCHANGED <<documents, bucket, nextAgentId, nextDocId, clock>>

\* ---------------------------------------------- DeleteDocumentCommand.execute
\* a variant that decrements without the floor at zero
DecrementCount_NoFloor(agent) == [agent EXCEPT !.documents_count = @ - 1]

\* agent.documents_count = max(0, agent.documents_count - 1)
DecrementCount(agent) == [agent EXCEPT !.documents_count = Max(0, @ - 1)]

\* a variant that reports a missing document with a plain Exception
DeleteDocumentChecks_Plain(document) ==
    IF document.err # "none" THEN document.err
    ELSE IF document.val = Null THEN "Exception"
    ELSE "none"

\* if not document: raise DocumentNotFoundException(document_id)
DeleteDocumentChecks(document) ==
    IF document.err # "none" THEN document.err
    ELSE IF document.val = Null THEN "DocumentNotFound"
    ELSE "none"

\* find_by_id and the DocumentNotFound check
DeleteDocumentStart(p, ids) ==
    \E document_id \in ids :
        LET document == find_by_id(documents, document_id)
            c == NewCall("deleteDocument", [document_id |-> document_id])
        IN  /\ calls[p].pc = "idle"
            /\ calls' = [calls EXCEPT ![p] =
                    IF DeleteDocumentChecks(document) # "none"
                    THEN Raise(c, DeleteDocumentChecks(document))
                    ELSE [c EXCEPT !.pc = "dd_get_agent", !.document = document.val]]
            /\ OnlyCalls

\* a variant that reports a missing owner as a missing document
DeleteDocumentOwnerCheck_AsMissingDocument(agent) ==
    IF agent.err # "none" THEN agent.err
    ELSE IF agent.val = Null THEN "DocumentNotFound"
    ELSE "none"

\* if not agent: raise AgentNotFoundException(str(document.agent_id))
DeleteDocumentOwnerCheck(agent) ==
    IF agent.err # "none" THEN agent.err
    ELSE IF agent.val = Null THEN "AgentNotFound"
    ELSE "none"

\* get_agent_by_id of the owner and the AgentNotFound check
DeleteDocumentGetAgent(p) ==
    LET c == calls[p]
        agent == get_agent_by_id(agents, c.document.agent_id)
    IN  /\ c.pc = "dd_get_agent"
        /\ calls' = [calls EXCEPT ![p] =
                IF DeleteDocumentOwnerCheck(agent) # "none"
                THEN Raise(c, DeleteDocumentOwnerCheck(agent))
                ELSE [c EXCEPT !.pc = "dd_blob", !.agent = agent.val]]
        /\ OnlyCalls

\* a variant without the try/except around delete_file
DeleteFileError_Propagated(outcome) == IF outcome = "raise" THEN "Exception" ELSE "none"

\* how the try/except around delete_file ends: the error is only logged
DeleteFileError(outcome) == "none"

\* delete_file inside try/except: S3FileStorage returns False on ClientError
\* and lets other errors out; the command logs and goes on in every case
DeleteDocumentBlob(p) ==
    \E outcome \in {"ok", "false", "raise"} :
        LET c == [calls[p] EXCEPT !.nBlob = @ + 1,
                                  !.faults = IF outcome = "ok" THEN @
                                             ELSE IF outcome = "raise" THEN @ \cup {"delete_file"}
                                             ELSE @ \cup {"delete_file_false"}]
        IN  /\ calls[p].pc = "dd_blob"
            /\ bucket' = IF outcome = "ok" THEN Remove(bucket, c.document.s3_key) ELSE bucket
            /\ calls' = [calls EXCEPT ![p] =
                    IF DeleteFileError(outcome) # "none"
                    THEN Raise(c, DeleteFileError(outcome))
                    ELSE [c EXCEPT !.pc = "dd_delete"]]
            /\ UNCHANGED <<agents, documents, nextAgentId, nextDocId, clock>>

\* document_repository.delete; on a true result the counter of the agent
\* read earlier is decremented
DeleteDocumentDelete(p) ==
    \E fail \in BOOLEAN :
        LET c == [calls[p] EXCEPT !.faults = IF fail THEN @ \cup {"delete"} ELSE @]
            r == delete_document(documents, c.arg.document_id)
        IN  /\ calls[p].pc = "dd_delete"
            /\ IF fail THEN /\ calls' = [calls EXCEPT ![p] = Raise(c, "DatabaseError")]
                            /\ UNCHANGED documents
               ELSE /\ documents' = r.coll
                    /\ calls' = [calls EXCEPT ![p] =
                            IF r.result
                            THEN [c EXCEPT !.pc = "dd_save_agent", !.result = r.result,
                                           !.agent = DecrementCount(c.agent)]
                            ELSE Return(c, r.result)]
            /\ UNCHANGED <<agents, bucket, nextAgentId, nextDocId, clock>>

DeleteDocumentSaveAgent(p) ==
    \E fail \in BOOLEAN :
        LET c == [calls[p] EXCEPT !.nAgentSave = @ + 1,
                                  !.faults = IF fail THEN @ \cup {"save_agent"} ELSE @]
            r == save_agent(agents, c.agent)
        IN  /\ calls[p].pc = "dd_save_agent"
            /\ IF fail THEN /\ calls' = [calls EXCEPT ![p] = Raise([c EXCEPT !.result = Null], "DatabaseError")]
                            /\ UNCHANGED agents
               ELSE IF r.err # "none"
                    THEN /\ calls' = [calls EXCEPT ![p] = Raise([c EXCEPT !.result = Null], r.err)]
                         /\ UNCHANGED agents
                    ELSE /\ calls' = [calls EXCEPT ![p] = Return(c, c.result)]
                         /\ agents' = r.coll
            /\ UNCHANGED <<documents, bucket, nextAgentId, nextDocId, clock>>

\* ------------------------------------------------- DeleteAgentCommand.execute
\* get_agent_by_id and the AgentNotFound check
DeleteAgentStart(p, ids) ==
    \E agent_id \in ids :
        LET agent == get_agent_by_id(agents, agent_id)
            c == NewCall("deleteAgent", [agent_id |-> agent_id])
        IN  /\ calls[p].pc = "idle"
            /\ calls' = [calls EXCEPT ![p] =
                    IF agent.err # "none" THEN Raise(c, agent.err)
                    ELSE IF agent.val = Null THEN Raise(c, "AgentNotFound")
                    ELSE [c EXCEPT !.pc = "da_find", !.agent = agent.val]]
            /\ OnlyCalls

\* documents = find_by_agent_id(agent_id_vo)
DeleteAgentFind(p) ==
    LET c == calls[p]
    IN  /\ c.pc = "da_find"
        /\ calls' = [calls EXCEPT ![p] =
                [c EXCEPT !.pc = "da_folder",
                          !.found = find_by_agent_id(documents, c.arg.agent_id)]]
        /\ OnlyCalls

\* how the try/except around delete_folder ends: the exception is logged
DeleteFolderError(raised) == "none"

\* delete_folder(f"agents/{agent_id}/") inside try/except, in both branches
\* of "if documents": it raises with nothing removed, or returns after
\* delete_objects removed the keys S3 reports as deleted
DeleteAgentFolder(p) ==
    /\ calls[p].pc = "da_folder"
    /\ \E raised \in BOOLEAN,
          deleted \in SUBSET KeysWithPrefix(bucket, FolderKey(calls[p].arg.agent_id)) :
            LET c == [calls[p] EXCEPT !.nBlob = @ + 1,
                                      !.faults = IF raised THEN @ \cup {"delete_folder"} ELSE @]
            IN  /\ raised => deleted = {}
                /\ bucket' = Restrict(bucket, (DOMAIN bucket) \ deleted)
                /\ calls' = [calls EXCEPT ![p] =
                        IF DeleteFolderError(raised) # "none"
                        THEN Raise(c, DeleteFolderError(raised))
                        ELSE [c EXCEPT !.pc = "da_del_docs"]]
                /\ UNCHANGED <<agents, documents, nextAgentId, nextDocId, clock>>

\* a variant that logs a failure of delete_by_agent_id and goes on
DeleteRowsError_Swallowed(fail) == "none"

\* how the call of delete_by_agent_id ends: it is not inside a try/except,
\* so its exception leaves the command
DeleteRowsError(fail) == IF fail THEN "DatabaseError" ELSE "none"

\* doc_count = delete_by_agent_id(agent_id_vo)
DeleteAgentDeleteDocuments(p) ==
    \E fail \in BOOLEAN :
        LET c == [calls[p] EXCEPT !.faults = IF fail THEN @ \cup {"delete_by_agent_id"} ELSE @]
            r == delete_by_agent_id(documents, c.arg.agent_id)
        IN  /\ calls[p].pc = "da_del_docs"
            /\ documents' = IF fail THEN documents ELSE r.coll
            /\ calls' = [calls EXCEPT ![p] =
                    IF DeleteRowsError(fail) # "none" THEN Raise(c, DeleteRowsError(fail))
                    ELSE [c EXCEPT !.pc = "da_del_agent"]]
            /\ UNCHANGED <<agents, bucket, nextAgentId, nextDocId, clock>>

\* result = delete_agent(agent_id_vo); return result
DeleteAgentDeleteAgent(p) ==
    \E fail \in BOOLEAN :
        LET c == [calls[p] EXCEPT !.faults = IF fail THEN @ \cup {"delete_agent"} ELSE @]
            r == delete_agent(agents, c.arg.agent_id)
        IN  /\ calls[p].pc = "da_del_agent"
            /\ IF fail THEN /\ calls' = [calls EXCEPT ![p] = Raise(c, "DatabaseError")]
                            /\ UNCHANGED agents
               ELSE /\ calls' = [calls EXCEPT ![p] = Return(c, r.result)]
                    /\ agents' = r.coll
            /\ UNCHANGED <<documents, bucket, nextAgentId, nextDocId, clock>>

\* ------------------------------------------------- UpdateAgentCommand.execute
NamePadded == <<" ">> \o NameBot \o <<" ">>
UpdateAgentDTOs ==
    {[name |-> NameBot, prompt |-> None],
     [name |-> NamePadded, prompt |-> PromptPadded],
     [name |-> NameTooLong, prompt |-> None],
     [name |-> None, prompt |-> PromptShort]}

\* str(x) of a name field: the text "None" for None
StrOfName(name) == IF name = None THEN <<"N", "o", "n", "e">> ELSE name

\* str(agent_id): the text of the uuid
Digits == <<"1", "2", "3", "4", "5", "6", "7", "8", "9">>
StrOfAgentId(agent_id) == <<"u", "u", "i", "d", "-", Digits[agent_id]>>

\* id=str(update_agent_dto.name) of the AgentResponseDTO
UpdateResponseId(agent, dto) == StrOfName(dto.name)

\* AgentResponseDTO of updateAgent
UpdateAgentResponse(a, dto) ==
    [id |-> UpdateResponseId(a, dto), name |-> a.name, prompt |-> a.prompt,
     documents_count |-> a.documents_count,
     created_at |-> a.created_at, updated_at |-> a.updated_at]

\* update_agent_dto.name and update_agent_dto.name != existing_agent.name
UpdateNeedsNameCheck(existing_agent, dto) ==
    dto.name # None /\ dto.name # <<>> /\ dto.name # existing_agent.name

\* existing_agent.update(...) and what follows it
UpdateAgentUpdate(c, now) ==
    LET u == AgentUpdate(c.agent, c.arg.name, c.arg.prompt, now)
    IN  IF u.err # "none" THEN Raise([c EXCEPT !.agent = u.val], u.err)
        ELSE [c EXCEPT !.pc = "ua_save", !.agent = u.val]

\* get_agent_by_id and the AgentNotFound check; the update itself when the
\* name needs no lookup
UpdateAgentStart(p, ids, dtos) ==
    \E agent_id \in ids, dto \in dtos :
        LET existing_agent == get_agent_by_id(agents, agent_id)
            c == NewCall("updateAgent",
                         [agent_id |-> agent_id, name |-> dto.name, prompt |-> dto.prompt])
        IN  /\ calls[p].pc = "idle"
            /\ calls' = [calls EXCEPT ![p] =
                    IF existing_agent.err # "none" THEN Raise(c, existing_agent.err)
                    ELSE IF existing_agent.val = Null THEN Raise(c, "AgentNotFound")
                    ELSE IF UpdateNeedsNameCheck(existing_agent.val, dto)
                    THEN [c EXCEPT !.pc = "ua_name", !.agent = existing_agent.val]
                    ELSE UpdateAgentUpdate([c EXCEPT !.agent = existing_agent.val], clock)]
            /\ OnlyCalls

\* get_agent_by_name of the new name, the duplicate check and the update
UpdateAgentName(p) ==
    LET c == [calls[p] EXCEPT !.nLookup = @ + 1]
        existing == get_agent_by_name(agents, c.arg.name)
    IN  /\ calls[p].pc = "ua_name"
        /\ calls' = [calls EXCEPT ![p] =
                IF existing.err # "none" THEN Raise(c, existing.err)
                ELSE IF existing.val # Null THEN Raise(c, "DuplicateAgentName")
                ELSE UpdateAgentUpdate(c, clock)]
        /\ OnlyCalls

\* save_agent and the response
UpdateAgentSave(p) ==
    \E fail \in BOOLEAN :
        LET c == [calls[p] EXCEPT !.nAgentSave = @ + 1,
                                  !.faults = IF fail THEN @ \cup {"save_agent"} ELSE @]
            r == save_agent(agents, c.agent)
        IN  /\ calls[p].pc = "ua_save"
            /\ IF fail THEN /\ calls' = [calls EXCEPT ![p] = Raise(c, "DatabaseError")]
                            /\ UNCHANGED agents
               ELSE IF r.err # "none"
                    THEN /\ calls' = [calls EXCEPT ![p] = Raise(c, r.err)]
                         /\ UNCHANGED agents
                    ELSE /\ calls' = [calls EXCEPT ![p] =
                                Return(c, UpdateAgentResponse(c.agent, c.arg))]
                         /\ agents' = r.coll
            /\ UNCHANGED <<documents, bucket, nextAgentId, nextDocId, clock>>

\* ------------------------------------------------------------- environment
\* the response has been handed to the client; the task is free again
Finish(p) ==
    /\ calls[p].pc = "done"
    /\ calls' = [calls EXCEPT ![p] = Idle]
    /\ OnlyCalls

\* time passes
Tick ==
    /\ clock < MaxClock
    /\ clock' = clock + 1
    /\ UNCHANGED <<agents, documents, bucket, nextAgentId, nextDocId, calls>>

\* no request is being served
AllIdle == \A q \in Procs : calls[q].pc = "idle"

\* a request is accepted while the run's budget of requests lasts
Accept ==
    /\ served < MaxCalls
    /\ served' = served + 1

\* a request in flight goes on
Step == UNCHANGED served

\* remember whether the step of task p ended its request by raising
Track(p) == clean' = (clean /\ calls'[p].err = "none")

\* the task that serves the requests when they come one at a time
Serial == {"p1"}

\* requests are served one at a time: a request starts only when no other
\* request is in flight
Next ==
    \/ \E p \in Serial : AllIdle /\ Accept /\ CreateAgentStart(p, Names, Prompts) /\ Track(p)
    \/ \E p \in Serial : Step /\ CreateAgentSave(p) /\ Track(p)
    \/ \E p \in Serial : Step /\ CreateAgentFolder(p) /\ Track(p)
    \/ \E p \in Serial : AllIdle /\ Accept /\ UploadStart(p, UploadDTOs) /\ Track(p)
    \/ \E p \in Serial : Step /\ UploadBlob(p) /\ Track(p)
    \/ \E p \in Serial : Step /\ UploadSaveDocument(p) /\ Track(p)
    \/ \E p \in Serial : Step /\ UploadSaveAgent(p) /\ Track(p)
    \/ \E p \in Serial : AllIdle /\ Accept /\ DeleteDocumentStart(p, DocIds) /\ Track(p)
    \/ \E p \in Serial : Step /\ DeleteDocumentGetAgent(p) /\ Track(p)
    \/ \E p \in Serial : Step /\ DeleteDocumentBlob(p) /\ Track(p)
    \/ \E p \in Serial : Step /\ DeleteDocumentDelete(p) /\ Track(p)
    \/ \E p \in Serial : Step /\ DeleteDocumentSaveAgent(p) /\ Track(p)
    \/ \E p \in Serial : AllIdle /\ Accept /\ DeleteAgentStart(p, AgentIds) /\ Track(p)
    \/ \E p \in Serial : Step /\ DeleteAgentFind(p) /\ Track(p)
    \/ \E p \in Serial : Step /\ DeleteAgentFolder(p) /\ Track(p)
    \/ \E p \in Serial : Step /\ DeleteAgentDeleteDocuments(p) /\ Track(p)
    \/ \E p \in Serial : Step /\ DeleteAgentDeleteAgent(p) /\ Track(p)
    \/ \E p \in Serial : AllIdle /\ Accept /\ UpdateAgentStart(p, AgentIds, UpdateAgentDTOs) /\ Track(p)
    \/ \E p \in Serial : Step /\ UpdateAgentName(p) /\ Track(p)
    \/ \E p \in Serial : Step /\ UpdateAgentSave(p) /\ Track(p)
    \/ \E p \in Serial : Step /\ Finish(p) /\ Track(p)
    \/ AllIdle /\ Step /\ Tick /\ UNCHANGED clean

Spec == Init /\ [][Next]_vars

\* ------------------------------------------------------ concurrent requests
\* the inputs of the requests that are served concurrently
ConcNames == {NameBot, NameMax}
ConcPrompts == {PromptMin}
ConcUploadDTOs ==
    [agent_id : AgentIds, filename : {FileReport}, file : FileBodies,
     content_type : {"application/pdf"}, file_size : {MAX_FILE_SIZE}]
ConcUpdateDTOs == [name : {NameBot, NamePadded}, prompt : {None}]

\* the event loop runs the requests of all tasks interleaved: any task may
\* take its next step (the code between two awaits) at any time
\* a request is accepted while the budget of the concurrent run lasts
AcceptConc ==
    /\ served < MaxConcCalls
    /\ served' = served + 1

NextConc ==
    \/ \E p \in Procs : AcceptConc /\ CreateAgentStart(p, ConcNames, ConcPrompts) /\ Track(p)
    \/ \E p \in Procs : Step /\ CreateAgentSave(p) /\ Track(p)
    \/ \E p \in Procs : Step /\ CreateAgentFolder(p) /\ Track(p)
    \/ \E p \in Procs : AcceptConc /\ UploadStart(p, ConcUploadDTOs) /\ Track(p)
    \/ \E p \in Procs : Step /\ UploadBlob(p) /\ Track(p)
    \/ \E p \in Procs : Step /\ UploadSaveDocument(p) /\ Track(p)
    \/ \E p \in Procs : Step /\ UploadSaveAgent(p) /\ Track(p)
    \/ \E p \in Procs : AcceptConc /\ DeleteDocumentStart(p, DocIds) /\ Track(p)
    \/ \E p \in Procs : Step /\ DeleteDocumentGetAgent(p) /\ Track(p)
    \/ \E p \in Procs : Step /\ DeleteDocumentBlob(p) /\ Track(p)
    \/ \E p \in Procs : Step /\ DeleteDocumentDelete(p) /\ Track(p)
    \/ \E p \in Procs : Step /\ DeleteDocumentSaveAgent(p) /\ Track(p)
    \/ \E p \in Procs : AcceptConc /\ DeleteAgentStart(p, AgentIds) /\ Track(p)
    \/ \E p \in Procs : Step /\ DeleteAgentFind(p) /\ Track(p)
    \/ \E p \in Procs : Step /\ DeleteAgentFolder(p) /\ Track(p)
    \/ \E p \in Procs : Step /\ DeleteAgentDeleteDocuments(p) /\ Track(p)
    \/ \E p \in Procs : Step /\ DeleteAgentDeleteAgent(p) /\ Track(p)
    \/ \E p \in Procs : AcceptConc /\ UpdateAgentStart(p, AgentIds, ConcUpdateDTOs) /\ Track(p)
    \/ \E p \in Procs : Step /\ UpdateAgentName(p) /\ Track(p)
    \/ \E p \in Procs : Step /\ UpdateAgentSave(p) /\ Track(p)
    \/ \E p \in Procs : Step /\ Finish(p) /\ Track(p)
    \/ AllIdle /\ Step /\ Tick /\ UNCHANGED clean

SpecConc == Init /\ [][NextConc]_vars

\* ------------------------------------------------- GetDocumentQuery.execute
\* the fields of the dataclass DocumentResponseDTO; none has a default
DocumentResponseDTOFields ==
    {"id", "agent_id", "filename", "document_type", "file_url", "s3_key",
     "file_size", "file_size_mb", "created_at"}

\* the keyword arguments GetDocumentQuery.execute gives to DocumentResponseDTO
GetDocumentKeywords ==
    {"id", "agent_id", "filename", "document_type", "file_url",
     "file_size", "file_size_mb", "created_at"}

\* the generated __init__ of a dataclass: TypeError when a field without a
\* default is missing or a keyword is not a field
DataclassInit(fields, keywords) == IF keywords = fields THEN "none" ELSE "TypeError"

\* document_dto = DocumentResponseDTO(id=..., ..., created_at=...)
GetDocumentResponse(d) ==
    IF DataclassInit(DocumentResponseDTOFields, GetDocumentKeywords) # "none"
    THEN [err |-> DataclassInit(DocumentResponseDTOFields, GetDocumentKeywords), val |-> Null]
    ELSE [err |-> "none",
          val |-> [id |-> d.id, agent_id |-> d.agent_id, filename |-> d.filename,
                   document_type |-> d.document_type, file_url |-> d.s3_url,
                   file_size |-> d.file_size, created_at |-> d.created_at]]

\* find_by_id, the "not document" check and the conversion to the DTO
GetDocument(p, ids) ==
    \E document_id \in ids :
        LET document == find_by_id(documents, document_id)
            c == [NewCall("getDocument", [document_id |-> document_id]) EXCEPT !.nLookup = 1]
            r == GetDocumentResponse(document.val)
        IN  /\ calls[p].pc = "idle"
            /\ calls' = [calls EXCEPT ![p] =
                    IF document.err # "none" THEN Raise(c, document.err)
                    ELSE IF document.val = Null THEN Raise(c, "DocumentNotFound")
                    ELSE IF r.err # "none" THEN Raise(c, r.err)
                    ELSE Return(c, r.val)]
            /\ OnlyCalls

\* ------------------------------------------- documents router, POST /upload
\* the status code of the answer of upload_document when command.execute
\* ends with err: 201 on return, else the first except clause that matches
\* (AgentNotFoundException, InvalidFileTypeException, Exception)
upload_document_status(err) ==
    IF err = "none" THEN 201
    ELSE IF err = "AgentNotFound" THEN 404
    ELSE IF err = "InvalidFileType" THEN 400
    ELSE 500

\* ------------------------------------------------ DocumentValidationService
MAX_DOCUMENTS_PER_AGENT == 50
MAX_FILE_SIZE_MB == 20
SUPPORTED_FILE_TYPES ==
    {<<"p", "d", "f">>, <<"d", "o", "c", "x">>, <<"x", "l", "s", "x">>,
     <<"p", "p", "t", "x">>, <<"t", "x", "t">>, <<"c", "s", "v">>}

\* str.lstrip('.')
RECURSIVE LStripDots(_)
LStripDots(s) == IF s # <<>> /\ Head(s) = "." THEN LStripDots(Tail(s)) ELSE s

\* _validate_documents_limit: current_count >= MAX_DOCUMENTS_PER_AGENT
validate_documents_limit(coll, agent_id) ==
    count_by_agent_id(coll, agent_id) >= MAX_DOCUMENTS_PER_AGENT

\* a variant that looks at the documents of every agent
validate_duplicate_document_AnyAgent(coll, agent_id, filename) ==
    \E i \in DOMAIN coll : Lower(DocToDomain(coll[i]).val.filename) = Lower(filename)

\* _validate_duplicate_document: some document of the agent has the file
\* name, compared in lower case
validate_duplicate_document(coll, agent_id, filename) ==
    \E doc \in find_by_agent_id(coll, agent_id) : Lower(doc.filename) = Lower(filename)

\* _validate_file_size: file_size / (1024 * 1024) > MAX_FILE_SIZE_MB
service_validate_file_size(file_size) == file_size > MAX_FILE_SIZE_MB * 1024 * 1024

\* _validate_file_type: file_type.lower().lstrip('.') not in SUPPORTED_FILE_TYPES
service_validate_file_type(file_type) ==
    LStripDots(Lower(file_type)) \notin SUPPORTED_FILE_TYPES

\* validate_document_upload: the four checks in the order of the code; the
\* result is the exception raised, "none" when the upload passes
validate_document_upload(coll, agent_id, filename, file_size, file_type) ==
    IF validate_documents_limit(coll, agent_id) THEN "MaxDocumentsPerAgentExceeded"
    ELSE IF validate_duplicate_document(coll, agent_id, filename) THEN "DuplicateDocument"
    ELSE IF service_validate_file_size(file_size) THEN "DocumentSizeExceeded"
    ELSE IF service_validate_file_type(file_type) THEN "UnsupportedFileType"
    ELSE "none"

\* a call of validate_document_upload on the stores as they are
ValidateDocumentUpload(p, agent_ids, filenames, sizes, types) ==
    \E agent_id \in agent_ids, filename \in filenames, file_size \in sizes, file_type \in types :
        LET c == NewCall("validate", [agent_id |-> agent_id, filename |-> filename,
                                      file_size |-> file_size, file_type |-> file_type])
            e == validate_document_upload(documents, agent_id, filename, file_size, file_type)
        IN  /\ calls[p].pc = "idle"
            /\ calls' = [calls EXCEPT ![p] = IF e # "none" THEN Raise(c, e) ELSE Return(c, TRUE)]
            /\ OnlyCalls

\* ------------------------------------------- an agent at the document limit
\* The stores after createAgent('Bot'), createAgent('X'*30), fifty uploads
\* of d.pdf, dd.pdf, ... to the first agent and one upload of r.pdf to the
\* second one.  The ids of these documents lie outside DocIds.
MaxLoadedCalls == 2

LoadedFile(i) == Rep("d", i) \o <<".", "p", "d", "f">>
LoadedBase == 100
LoadedIds == LoadedBase .. (LoadedBase + MAX_DOCUMENTS_PER_AGENT)

LoadedDTO(id) ==
    [agent_id |-> IF id = LoadedBase THEN 2 ELSE 1,
     filename |-> IF id = LoadedBase THEN FileReport ELSE LoadedFile(id - LoadedBase),
     file |-> "f1", content_type |-> "application/pdf", file_size |-> MAX_FILE_SIZE]

LoadedUpload(id) ==
    LET dto == LoadedDTO(id)
    IN  upload_file(Empty, dto.file, UploadKey(dto), dto.content_type, UploadMetadata(dto))

LoadedRow(id) == DocToModel(UploadDocumentCreate(LoadedDTO(id), LoadedUpload(id).meta, id, 0).val)

\* the record of an agent after its uploads: every upload saves the agent
\* it read with the counter it read plus 1
LoadedAgent(id, name) == AgentToModel(IncrementCount(AgentNew(id, name, PromptMin, 0, 0, 0).val))

LoadedBucket ==
    LET folders == {FolderKey(1), FolderKey(2)}
        idOf(k) == CHOOSE id \in LoadedIds : UploadKey(LoadedDTO(id)) = k
    IN  [k \in folders \cup {UploadKey(LoadedDTO(id)) : id \in LoadedIds} |->
            IF k \in folders THEN create_folder(Empty, k)[k]
            ELSE LoadedUpload(idOf(k)).bucket[k]]

InitLoaded ==
    /\ agents = (1 :> LoadedAgent(1, NameBot)) @@ (2 :> LoadedAgent(2, NameMax))
    /\ documents = [id \in LoadedIds |-> LoadedRow(id)]
    /\ bucket = LoadedBucket
    /\ nextAgentId = 2
    /\ nextDocId = 0
    /\ clock = 0
    /\ served = 0
    /\ clean = TRUE
    /\ calls = [p \in Procs |-> Idle]

\* the requests made of the loaded stores
LoadedAgentIds == {1, 2}
LoadedFileNames == {LoadedFile(1), LoadedFile(2), FileReport, FileUpper, FileExe}
LoadedSizes == {MAX_FILE_SIZE, MAX_FILE_SIZE + 1}
LoadedTypes == {<<".", "P", "D", "F">>, <<"e", "x", "e">>}
LoadedUploadDTOs ==
    [agent_id : LoadedAgentIds, filename : {LoadedFile(1), FileUpper}, file : FileBodies,
     content_type : {"application/pdf"}, file_size : {MAX_FILE_SIZE}]
LoadedDeleteIds == {LoadedBase, LoadedBase + 1}
LoadedGetIds == {LoadedBase, LoadedBase + 1, 1}

AcceptLoaded ==
    /\ served < MaxLoadedCalls
    /\ served' = served + 1

NextLoaded ==
    \/ \E p \in Serial : AllIdle /\ AcceptLoaded
            /\ ValidateDocumentUpload(p, LoadedAgentIds, LoadedFileNames, LoadedSizes, LoadedTypes)
            /\ Track(p)
    \/ \E p \in Serial : AllIdle /\ AcceptLoaded /\ GetDocument(p, LoadedGetIds) /\ Track(p)
    \/ \E p \in Serial : AllIdle /\ AcceptLoaded /\ UploadStart(p, LoadedUploadDTOs) /\ Track(p)
    \/ \E p \in Serial : Step /\ UploadBlob(p) /\ Track(p)
    \/ \E p \in Serial : Step /\ UploadSaveDocument(p) /\ Track(p)
    \/ \E p \in Serial : Step /\ UploadSaveAgent(p) /\ Track(p)
    \/ \E p \in Serial : AllIdle /\ AcceptLoaded /\ DeleteDocumentStart(p, LoadedDeleteIds) /\ Track(p)
    \/ \E p \in Serial : Step /\ DeleteDocumentGetAgent(p) /\ Track(p)
    \/ \E p \in Serial : Step /\ DeleteDocumentBlob(p) /\ Track(p)
    \/ \E p \in Serial : Step /\ DeleteDocumentDelete(p) /\ Track(p)
    \/ \E p \in Serial : Step /\ DeleteDocumentSaveAgent(p) /\ Track(p)
    \/ \E p \in Serial : Step /\ Finish(p) /\ Track(p)

SpecLoaded == InitLoaded /\ [][NextLoaded]_vars

\* ------------------------------------------ requests racing for one agent
\* The stores after createAgent('Bot'), and the stores after two uploads
\* (r.pdf, R.PDF) to that agent; two tasks then serve requests for the agent
\* at the same time.  The ids of the two documents lie outside DocIds.
MaxRaceCalls == 2

RaceBodies == {"f1", "f2"}
RaceDocIds == {LoadedBase + 1, LoadedBase + 2}

RaceDTO(id) ==
    [agent_id |-> 1, filename |-> IF id = LoadedBase + 1 THEN FileReport ELSE FileUpper,
     file |-> "f1", content_type |-> "application/pdf", file_size |-> MAX_FILE_SIZE]

RaceUpload(id) ==
    LET dto == RaceDTO(id)
    IN  upload_file(Empty, dto.file, UploadKey(dto), dto.content_type, UploadMetadata(dto))

RaceRow(id) == DocToModel(UploadDocumentCreate(RaceDTO(id), RaceUpload(id).meta, id, 0).val)

RaceAgent == AgentNew(1, NameBot, PromptMin, 0, 0, 0).val

RaceBucket(ids) ==
    LET idOf(k) == CHOOSE id \in ids : UploadKey(RaceDTO(id)) = k
    IN  [k \in {FolderKey(1)} \cup {UploadKey(RaceDTO(id)) : id \in ids} |->
            IF k = FolderKey(1) THEN create_folder(Empty, k)[k]
            ELSE RaceUpload(idOf(k)).bucket[k]]

InitRace ==
    /\ \E ids \in {{}, RaceDocIds} :
        /\ agents = (1 :> AgentToModel(IF ids = {} THEN RaceAgent ELSE IncrementCount(RaceAgent)))
        /\ documents = [id \in ids |-> RaceRow(id)]
        /\ bucket = RaceBucket(ids)
    /\ nextAgentId = 1
    /\ nextDocId = 0
    /\ clock = 0
    /\ served = 0
    /\ clean = TRUE
    /\ calls = [p \in Procs |-> Idle]

RaceUploadDTOs ==
    [agent_id : {1}, filename : {FileReport, FileUpper}, file : RaceBodies,
     content_type : {"application/pdf"}, file_size : {MAX_FILE_SIZE}]

AcceptRace ==
    /\ served < MaxRaceCalls
    /\ served' = served + 1

NextRace ==
    \/ \E p \in Procs : AcceptRace /\ UploadStart(p, RaceUploadDTOs) /\ Track(p)
    \/ \E p \in Procs : Step /\ UploadBlob(p) /\ Track(p)
    \/ \E p \in Procs : Step /\ UploadSaveDocument(p) /\ Track(p)
    \/ \E p \in Procs : Step /\ UploadSaveAgent(p) /\ Track(p)
    \/ \E p \in Procs : AcceptRace /\ DeleteDocumentStart(p, RaceDocIds) /\ Track(p)
    \/ \E p \in Procs : Step /\ DeleteDocumentGetAgent(p) /\ Track(p)
    \/ \E p \in Procs : Step /\ DeleteDocumentBlob(p) /\ Track(p)
    \/ \E p \in Procs : Step /\ DeleteDocumentDelete(p) /\ Track(p)
    \/ \E p \in Procs : Step /\ DeleteDocumentSaveAgent(p) /\ Track(p)
    \/ \E p \in Procs : AcceptRace /\ DeleteAgentStart(p, {1}) /\ Track(p)
    \/ \E p \in Procs : Step /\ DeleteAgentFind(p) /\ Track(p)
    \/ \E p \in Procs : Step /\ DeleteAgentFolder(p) /\ Track(p)
    \/ \E p \in Procs : Step /\ DeleteAgentDeleteDocuments(p) /\ Track(p)
    \/ \E p \in Procs : Step /\ DeleteAgentDeleteAgent(p) /\ Track(p)
    \/ \E p \in Procs : Step /\ Finish(p) /\ Track(p)

SpecRace == InitRace /\ [][NextRace]_vars

\* =================================================================== claims
\* the request of task p has ended (returned or raised)
Done(p) == calls[p].pc = "done"

\* the request of task p has returned without raising
Returned(p) == Done(p) /\ calls[p].err = "none"

\* the agent get_agent_by_id reads back, for an id that has a record
ReadBack(agent_id) == get_agent_by_id(agents, agent_id).val

\* C1: in a run of createAgent / upload / deleteDocument requests served one
\* at a time, none of which failed, after every request the documents_count
\* read back by get_agent_by_id equals the number of rows find_by_agent_id
\* returns, for every agent.
C1_CountEqualsRows ==
    \A p \in Procs :
        (/\ Returned(p)
         /\ clean
         /\ calls[p].op \in {"createAgent", "upload", "deleteDocument"})
        => \A a \in DOMAIN agents :
               /\ get_agent_by_id(agents, a).err = "none"
               /\ ReadBack(a).documents_count = Cardinality(find_by_agent_id(documents, a))

\* C2: the agent save_agent has just written is read back by get_agent_by_id
\* with the same id, name, prompt and documents_count.
C2_SaveThenGetRoundTrip ==
    \A p \in Procs :
        (/\ Returned(p)
         /\ calls[p].op \in {"createAgent", "upload", "deleteDocument"}
         /\ calls[p].nAgentSave = 1)
        => LET saved == calls[p].agent
               got == get_agent_by_id(agents, saved.id)
           IN  /\ got.err = "none"
               /\ got.val # Null
               /\ got.val.id = saved.id
               /\ got.val.name = saved.name
               /\ got.val.prompt = saved.prompt
               /\ got.val.documents_count = saved.documents_count

\* the request of task p is an upload (in flight or ended)
IsUpload(p) == calls[p].op = "upload" /\ calls[p].pc # "idle"

\* the request of task p made no call that writes
NoWrites(p) ==
    /\ calls[p].nBlob = 0
    /\ calls[p].nDocSave = 0
    /\ calls[p].nAgentSave = 0

\* the stores are as the request of task p found them
StoresUntouched(p) ==
    /\ agents = calls[p].pre.agents
    /\ documents = calls[p].pre.documents
    /\ bucket = calls[p].pre.bucket

\* the agent the upload of task p names had a record when the request came
UploadAgentExisted(p) == calls[p].arg.agent_id \in DOMAIN calls[p].pre.agents

\* the six supported extensions, as the claims list them
SupportedExtensions ==
    {<<"p", "d", "f">>, <<"d", "o", "c", "x">>, <<"x", "l", "s", "x">>,
     <<"p", "p", "t", "x">>, <<"t", "x", "t">>, <<"c", "s", "v">>}

\* the extension of a file name without its dot, in lower case
ExtensionOf(filename) ==
    IF SplitExt(filename) = <<>> THEN <<>> ELSE Lower(Tail(SplitExt(filename)))

\* C3: deleteAgent on an existing agent that owns documents, whose database
\* calls succeed, returns true and leaves no document row of the agent and no
\* agent record, also when delete_folder raised.
C3_DeleteAgentCascade ==
    \A p \in Procs :
        (/\ Done(p)
         /\ calls[p].op = "deleteAgent"
         /\ calls[p].arg.agent_id \in DOMAIN calls[p].pre.agents
         /\ RowsOfAgent(calls[p].pre.documents, calls[p].arg.agent_id) # {}
         /\ calls[p].faults \subseteq {"delete_folder"})
        => /\ calls[p].err = "none"
           /\ calls[p].result = TRUE
           /\ count_by_agent_id(documents, calls[p].arg.agent_id) = 0
           /\ calls[p].arg.agent_id \notin DOMAIN agents

\* C4: every upload to an agent that has a record, whose extension is not
\* one of the six, fails with InvalidFileType, whatever the content type,
\* with no call to the blob store and nothing written.
C4_BadExtensionIsInvalidFileType ==
    \A p \in Procs :
        (/\ IsUpload(p)
         /\ UploadAgentExisted(p)
         /\ ExtensionOf(calls[p].arg.filename) \notin SupportedExtensions)
        => /\ Done(p)
           /\ calls[p].err = "InvalidFileType"
           /\ NoWrites(p)
           /\ StoresUntouched(p)

\* C5: every upload to an agent that has a record, with a supported
\* extension, that declares more than 20 MiB fails with FileSizeExceeded and
\* never reaches the blob store; one that declares exactly 20 MiB passes the
\* size check and goes on to the blob store.
C5_OversizeIsFileSizeExceeded ==
    \A p \in Procs :
        (/\ IsUpload(p)
         /\ UploadAgentExisted(p)
         /\ ExtensionOf(calls[p].arg.filename) \in SupportedExtensions)
        => /\ calls[p].arg.file_size > 20 * 1024 * 1024
              => Done(p) /\ calls[p].err = "FileSizeExceeded" /\ NoWrites(p)
           /\ calls[p].arg.file_size = 20 * 1024 * 1024
              => /\ calls[p].err # "FileSizeExceeded"
                 /\ Done(p) => calls[p].nBlob = 1

\* C6: an upload to an agent id without a record fails with AgentNotFound
\* and writes no blob, no document row and no agent.
C6_UploadToMissingAgent ==
    \A p \in Procs :
        (IsUpload(p) /\ ~UploadAgentExisted(p))
        => /\ Done(p)
           /\ calls[p].err = "AgentNotFound"
           /\ NoWrites(p)
           /\ StoresUntouched(p)

\* an upload of an unsupported file to a missing agent ended with
\* AgentNotFound while another agent exists
C6_Witness ==
    \E p \in Procs :
        /\ IsUpload(p)
        /\ Done(p)
        /\ ~UploadAgentExisted(p)
        /\ agents # Empty
        /\ calls[p].arg.filename = FileExe
        /\ calls[p].err = "AgentNotFound"

\* C7: when upload_file fails the upload raises that error, saves no
\* document row and leaves the agents (so documents_count) as they were.
C7_BlobFailurePropagates ==
    \A p \in Procs :
        (IsUpload(p) /\ "upload_file" \in calls[p].faults)
        => /\ Done(p)
           /\ calls[p].err = "StorageException"
           /\ calls[p].nDocSave = 0
           /\ calls[p].nAgentSave = 0
           /\ documents = calls[p].pre.documents
           /\ agents = calls[p].pre.agents

\* an upload ended with StorageException after its blob write failed
C7_Witness ==
    \E p \in Procs :
        /\ IsUpload(p)
        /\ Done(p)
        /\ "upload_file" \in calls[p].faults
        /\ calls[p].nBlob = 1
        /\ calls[p].err = "StorageException"

\* C8: a successful upload stores for its agent the documents_count it read
\* at its start plus 1, calls save_agent once, and adds exactly one document
\* row, owned by that agent.
C8_UploadIncrementsOnce ==
    \A p \in Procs :
        (IsUpload(p) /\ Returned(p))
        => LET id == calls[p].arg.agent_id
               before == calls[p].pre
               read == get_agent_by_id(before.agents, id).val
               row == calls[p].result.id
           IN  /\ id \in DOMAIN agents
               /\ agents[id].documents_count = read.documents_count + 1
               /\ calls[p].nAgentSave = 1
               /\ row \notin DOMAIN before.documents
               /\ DOMAIN documents = (DOMAIN before.documents) \cup {row}
               /\ documents[row].agent_id = id
               /\ \A i \in DOMAIN before.documents : documents[i] = before.documents[i]

\* an upload returned and its agent's stored counter is 1
C8_Witness ==
    \E p \in Procs :
        /\ IsUpload(p)
        /\ Returned(p)
        /\ calls[p].nAgentSave = 1
        /\ agents[calls[p].arg.agent_id].documents_count = 1

\* C9: an upload whose blob write returned has stored its bytes under
\* agents/{agent id}/{file name} of the request, and the document row it
\* saves carries the key and the url the blob store returned.
C9_UploadKey ==
    \A p \in Procs :
        (IsUpload(p) /\ calls[p].meta # Null)
        => LET key == <<"agents", calls[p].arg.agent_id, calls[p].arg.filename>>
           IN  /\ key \in DOMAIN bucket
               /\ bucket[key].body = calls[p].arg.file
               /\ calls[p].meta.key = key
               /\ \A k \in DOMAIN bucket :
                      k # key => /\ k \in DOMAIN calls[p].pre.bucket
                                 /\ bucket[k] = calls[p].pre.bucket[k]
               /\ Returned(p)
                  => /\ documents[calls[p].result.id].s3_key = calls[p].meta.key
                     /\ documents[calls[p].result.id].s3_url = calls[p].meta.url

\* an upload of R.PDF returned with its row under agents/{id}/R.PDF
C9_Witness ==
    \E p \in Procs :
        /\ IsUpload(p)
        /\ Returned(p)
        /\ calls[p].arg.filename = FileUpper
        /\ documents[calls[p].result.id].s3_key
               = <<"agents", calls[p].arg.agent_id, <<"R", ".", "P", "D", "F">>>>

\* C10: when document_repository.save raises, is refused by the store or
\* hands back None, the upload ends with an error, save_agent is not called
\* and the agents (so documents_count) are as they were.
C10_SaveFailureStopsUpload ==
    \A p \in Procs :
        (IsUpload(p) /\ "save" \in calls[p].faults)
        => /\ Done(p)
           /\ calls[p].err # "none"
           /\ calls[p].nAgentSave = 0
           /\ agents = calls[p].pre.agents

\* an upload ended with an error because save handed back None
C10_Witness ==
    \E p \in Procs :
        /\ IsUpload(p)
        /\ Done(p)
        /\ "save" \in calls[p].faults
        /\ calls[p].nDocSave = 1
        /\ calls[p].err = "Exception"

\* the request of task p is a deleteDocument (in flight or ended)
IsDeleteDocument(p) == calls[p].op = "deleteDocument" /\ calls[p].pc # "idle"

\* the request of task p is a createAgent (in flight or ended)
IsCreateAgent(p) == calls[p].op = "createAgent" /\ calls[p].pc # "idle"

\* the request of task p is an updateAgent (in flight or ended)
IsUpdateAgent(p) == calls[p].op = "updateAgent" /\ calls[p].pc # "idle"

\* some agent record of the collection has this name
NameTaken(coll, name) == \E i \in DOMAIN coll : coll[i].name = name

\* C11: deleteDocument of an id without a document row fails with
\* DocumentNotFound, calls nothing that writes and leaves the bucket, the
\* document rows and the agent records as they were.
C11_DeleteMissingDocument ==
    \A p \in Procs :
        (/\ IsDeleteDocument(p)
         /\ calls[p].arg.document_id \notin DOMAIN calls[p].pre.documents)
        => /\ Done(p)
           /\ calls[p].err = "DocumentNotFound"
           /\ NoWrites(p)
           /\ StoresUntouched(p)

\* a deleteDocument of a missing id failed while another document exists
C11_Witness ==
    \E p \in Procs :
        /\ IsDeleteDocument(p)
        /\ Done(p)
        /\ calls[p].arg.document_id \notin DOMAIN calls[p].pre.documents
        /\ documents # Empty
        /\ calls[p].err = "DocumentNotFound"

\* C12: a deleteDocument whose delete_file raised, and whose database calls
\* succeed, returns true; the row is gone, save_agent was called once and the
\* stored documents_count of the owner is one less, floored at zero.
C12_BlobDeleteFailureIsSwallowed ==
    \A p \in Procs :
        (/\ IsDeleteDocument(p)
         /\ Done(p)
         /\ calls[p].faults = {"delete_file"})
        => LET id == calls[p].arg.document_id
               owner == calls[p].pre.documents[id].agent_id
           IN  /\ calls[p].err = "none"
               /\ calls[p].result = TRUE
               /\ id \notin DOMAIN documents
               /\ calls[p].nAgentSave = 1
               /\ agents[owner].documents_count
                      = Max(0, calls[p].pre.agents[owner].documents_count - 1)

\* a deleteDocument returned true after delete_file raised, the blob still
\* in the bucket and the stored counter down from 1 to 0
C12_Witness ==
    \E p \in Procs :
        /\ IsDeleteDocument(p)
        /\ Returned(p)
        /\ calls[p].faults = {"delete_file"}
        /\ calls[p].result = TRUE
        /\ calls[p].document.s3_key \in DOMAIN bucket
        /\ calls[p].pre.agents[calls[p].agent.id].documents_count = 1
        /\ agents[calls[p].agent.id].documents_count = 0

\* C13: in every state of every interleaving of the requests, the stored
\* documents_count of every agent is a natural number, and so is the counter
\* a deleteDocument is about to save.
C13_CountNeverNegative ==
    /\ \A a \in DOMAIN agents : agents[a].documents_count \in Nat
    /\ \A p \in Procs :
           calls[p].pc = "dd_save_agent" => calls[p].agent.documents_count \in Nat

\* a deleteDocument removed a row of an agent whose stored counter was 0
\* when the request came, and the counter is 0 afterwards
C13_Witness ==
    \E p \in Procs :
        /\ IsDeleteDocument(p)
        /\ Returned(p)
        /\ calls[p].result = TRUE
        /\ calls[p].nAgentSave = 1
        /\ calls[p].pre.agents[calls[p].agent.id].documents_count = 0
        /\ calls[p].agent.id \in DOMAIN agents
        /\ agents[calls[p].agent.id].documents_count = 0

\* C14: createAgent with a name some agent record already has fails with
\* DuplicateAgentName, does not call save_agent, and leaves the agent
\* records and the bucket as they were.
C14_DuplicateNameRefused ==
    \A p \in Procs :
        (/\ IsCreateAgent(p)
         /\ NameTaken(calls[p].pre.agents, calls[p].arg.name))
        => /\ Done(p)
           /\ calls[p].err = "DuplicateAgentName"
           /\ calls[p].nAgentSave = 0
           /\ agents = calls[p].pre.agents
           /\ bucket = calls[p].pre.bucket

\* C15: in every state of every interleaving of the requests, no two agent
\* records have the same name.
C15_NamesUnique ==
    \A a, b \in DOMAIN agents : a # b => agents[a].name # agents[b].name

\* two concurrent createAgent requests with the same name both passed the
\* lookup; one returned and the save of the other was refused by the index
C15_Witness ==
    \E p, q \in Procs :
        /\ p # q
        /\ IsCreateAgent(p) /\ IsCreateAgent(q)
        /\ calls[p].arg.name = calls[q].arg.name
        /\ Returned(p)
        /\ Done(q)
        /\ calls[q].nAgentSave = 1
        /\ calls[q].err = "DuplicateKeyError"

\* C16: a createAgent with an empty name or a prompt of fewer than 10
\* characters, when no agent has that name, called get_agent_by_name once,
\* failed with the validation error and did not call save_agent.
C16_LookupBeforeValidation ==
    \A p \in Procs :
        (/\ IsCreateAgent(p)
         /\ calls[p].arg.name = <<>> \/ Len(calls[p].arg.prompt) < 10
         /\ ~NameTaken(calls[p].pre.agents, calls[p].arg.name))
        => /\ Done(p)
           /\ calls[p].nLookup = 1
           /\ calls[p].err = "ValueError"
           /\ calls[p].nAgentSave = 0
           /\ agents = calls[p].pre.agents

\* a createAgent with an empty name failed validation after one lookup,
\* while another agent exists
C16_Witness ==
    \E p \in Procs :
        /\ IsCreateAgent(p)
        /\ Done(p)
        /\ calls[p].arg.name = <<>>
        /\ agents # Empty
        /\ calls[p].nLookup = 1
        /\ calls[p].err = "ValueError"

\* what C17 says of the agent a createAgent of task p returned, with the
\* prompt it is expected to carry
CreatedAs(p, prompt) ==
    LET r == calls[p].result
    IN  /\ r.name = calls[p].arg.name
        /\ r.prompt = prompt
        /\ r.documents_count = 0
        /\ r.created_at = r.updated_at
        /\ r.id \in AgentIds
        /\ r.id \notin DOMAIN calls[p].pre.agents
        /\ r.id \in DOMAIN agents
        /\ agents[r.id].name = calls[p].arg.name
        /\ agents[r.id].prompt = prompt
        /\ agents[r.id].documents_count = 0
        /\ agents[r.id].created_at = agents[r.id].updated_at

\* a createAgent of task p failed validation although its name has 1 to 30
\* and its prompt 10 to 2000 characters and no agent had the name
ValidRefused(p) ==
    /\ calls[p].err = "ValueError"
    /\ ~NameTaken(calls[p].pre.agents, calls[p].arg.name)
    /\ Len(calls[p].arg.name) \in 1..30
    /\ Len(calls[p].arg.prompt) \in 10..2000

C18_UpdateRevalidates ==
    \A p \in Procs :
        (IsUpdateAgent(p) /\ Done(p))
        => /\ Returned(p)
              => /\ Len(agents[calls[p].arg.agent_id].name) \in 1..30
                 /\ Len(agents[calls[p].arg.agent_id].prompt) \in 10..2000
           /\ (\/ calls[p].arg.name # None /\ Len(calls[p].arg.name) > 30
               \/ calls[p].arg.prompt # None /\ Len(calls[p].arg.prompt) \notin 10..2000)
              => /\ calls[p].err # "none"
                 /\ agents = calls[p].pre.agents

\* C19: an updateAgent that returned left the stored id, created_at and
\* documents_count of the agent as they were, and its response carries the
\* id of the agent.
C19_UpdateKeepsId ==
    \A p \in Procs :
        (IsUpdateAgent(p) /\ Returned(p))
        => LET id == calls[p].arg.agent_id
               before == calls[p].pre.agents[id]
           IN  /\ id \in DOMAIN agents
               /\ agents[id]._id = id
               /\ agents[id].created_at = before.created_at
               /\ agents[id].documents_count = before.documents_count
               /\ calls[p].result.id = StrOfAgentId(id)

\* C20: an updateAgent of an id without a record fails with AgentNotFound;
\* one whose new name differs from the agent's and belongs to another agent
\* fails with DuplicateAgentName; neither saves anything. One whose new name
\* is the agent's own name, and whose save goes through, returns.
C20_UpdateChecks ==
    \A p \in Procs :
        (IsUpdateAgent(p) /\ Done(p))
        => LET id == calls[p].arg.agent_id
               name == calls[p].arg.name
               before == calls[p].pre.agents
           IN  /\ id \notin DOMAIN before
                  => /\ calls[p].err = "AgentNotFound"
                     /\ calls[p].nAgentSave = 0
                     /\ agents = before
               /\ (/\ id \in DOMAIN before
                   /\ name # None
                   /\ name # before[id].name
                   /\ NameTaken(before, name))
                  => /\ calls[p].err = "DuplicateAgentName"
                     /\ calls[p].nAgentSave = 0
                     /\ agents = before
               /\ (/\ id \in DOMAIN before
                   /\ name = before[id].name
                   /\ calls[p].faults = {})
                  => calls[p].err = "none"

\* the request of task p is a call of validate_document_upload
IsValidate(p) == calls[p].op = "validate" /\ calls[p].pc # "idle"

\* how many document rows the agent had when the request of task p came
RowsBefore(p) == count_by_agent_id(calls[p].pre.documents, calls[p].arg.agent_id)

\* some row of the agent has the file name, letter case set aside
HasFileName(coll, agent_id, filename) ==
    \E i \in DOMAIN coll :
        /\ coll[i].agent_id = agent_id
        /\ Lower(coll[i].filename) = Lower(filename)

\* C21: an upload to an agent that already has 50 or more document rows is
\* rejected with the quota error before anything is written, and so no
\* agent ever owns more than 50 document rows when uploads come one at a time.
C21_QuotaEnforced ==
    /\ \A a \in DOMAIN agents : count_by_agent_id(documents, a) <= MAX_DOCUMENTS_PER_AGENT
    /\ \A p \in Procs :
        (IsUpload(p) /\ Done(p) /\ RowsBefore(p) >= MAX_DOCUMENTS_PER_AGENT)
        => /\ calls[p].err = "MaxDocumentsPerAgentExceeded"
           /\ NoWrites(p)

\* C22: validate_document_upload looks at the quota first; below the quota
\* it raises DuplicateDocument exactly when a document of the same agent has
\* the file name, letter case set aside, whatever the documents of other
\* agents are called and whatever the size and the type are; the size and
\* type errors are raised only when the name is not a duplicate.
C22_DuplicateCheck ==
    \A p \in Procs :
        (IsValidate(p) /\ Done(p))
        => LET a == calls[p].arg
               dup == HasFileName(calls[p].pre.documents, a.agent_id, a.filename)
           IN  /\ RowsBefore(p) >= MAX_DOCUMENTS_PER_AGENT
                  => calls[p].err = "MaxDocumentsPerAgentExceeded"
               /\ RowsBefore(p) < MAX_DOCUMENTS_PER_AGENT
                  => (calls[p].err = "DuplicateDocument" <=> dup)
               /\ calls[p].err \in {"DocumentSizeExceeded", "UnsupportedFileType"}
                  => ~dup /\ RowsBefore(p) < MAX_DOCUMENTS_PER_AGENT
               /\ StoresUntouched(p)

\* R.PDF, oversized and of an unsupported type, is refused as a duplicate of
\* the r.pdf of the same agent, while the first agent is at its quota
C22_Witness ==
    \E p \in Procs :
        /\ IsValidate(p) /\ Done(p)
        /\ calls[p].arg.agent_id = 2
        /\ calls[p].arg.filename = FileUpper
        /\ calls[p].arg.file_size > MAX_FILE_SIZE
        /\ calls[p].arg.file_type = <<"e", "x", "e">>
        /\ calls[p].err = "DuplicateDocument"
        /\ \E i \in DOMAIN documents : documents[i].agent_id = 2 /\ documents[i].filename = FileReport
        /\ count_by_agent_id(documents, 1) >= MAX_DOCUMENTS_PER_AGENT

\* the rows that carry the key the upload of task p writes to
RowsWithKey(coll, p) == {i \in DOMAIN coll : coll[i].s3_key = UploadKey(calls[p].arg)}

\* the upload of task p has put its object into the bucket
BlobWritten(p) == calls[p].nBlob = 1 /\ "upload_file" \notin calls[p].faults

\* C23: no two document rows ever have the same s3_key.  An upload whose
\* key already has a row, once it has written its blob, has replaced the
\* object under agents/{agent_id}/{filename}; its save of the row is
\* rejected, so the key keeps its one row, the agent is not saved and its
\* stored counter stays as it was.
C23_BlobKeyUnique ==
    /\ \A i, j \in DOMAIN documents : documents[i].s3_key = documents[j].s3_key => i = j
    /\ \A p \in Procs :
        (IsUpload(p) /\ Done(p) /\ BlobWritten(p) /\ RowsWithKey(calls[p].pre.documents, p) # {})
        => LET dto == calls[p].arg
               key == S3Key(dto.agent_id, dto.filename)
           IN  /\ key \in DOMAIN bucket
               /\ bucket[key].body = dto.file
               /\ bucket[key].content_type = dto.content_type
               /\ calls[p].err # "none"
               /\ calls[p].nAgentSave = 0
               /\ documents = calls[p].pre.documents
               /\ Cardinality(RowsWithKey(documents, p)) = 1
               /\ agents = calls[p].pre.agents

\* a second upload of r.pdf to the same agent, declared with another
\* content type, has replaced the object and was refused by the index
C23_Witness ==
    \E p \in Procs :
        /\ IsUpload(p) /\ Done(p) /\ BlobWritten(p)
        /\ RowsWithKey(calls[p].pre.documents, p) # {}
        /\ calls[p].err = "DuplicateKeyError"
        /\ UploadKey(calls[p].arg) \in DOMAIN calls[p].pre.bucket
        /\ bucket[UploadKey(calls[p].arg)].content_type
              # calls[p].pre.bucket[UploadKey(calls[p].arg)].content_type
        /\ agents[calls[p].arg.agent_id].documents_count = 1

\* C24: the upload endpoint answers an upload that failed with
\* InvalidFileType with 415, one that failed with FileSizeExceeded with 413,
\* one that failed with StorageException with 503 and one that failed with
\* AgentNotFound with 404.
C24_StatusPerError ==
    \A p \in Procs :
        (IsUpload(p) /\ Done(p))
        => LET answer == upload_document_status(calls[p].err)
           IN  /\ calls[p].err = "InvalidFileType" => answer = 415
               /\ calls[p].err = "FileSizeExceeded" => answer = 413
               /\ calls[p].err = "StorageException" => answer = 503
               /\ calls[p].err = "AgentNotFound" => answer = 404

\* the request of task p is a GetDocumentQuery
IsGetDocument(p) == calls[p].op = "getDocument" /\ calls[p].pc # "idle"

\* C25: GetDocumentQuery on an id that has a document row returns a response
\* with the id, file name, agent id, document type, url and size of that row
\* and changes nothing; on an id without a row it fails with
\* DocumentNotFound after exactly one lookup.
C25_GetDocument ==
    \A p \in Procs :
        (IsGetDocument(p) /\ Done(p))
        => LET id == calls[p].arg.document_id
           IN  /\ StoresUntouched(p)
               /\ calls[p].nLookup = 1
               /\ id \notin DOMAIN documents => calls[p].err = "DocumentNotFound"
               /\ id \in DOMAIN documents
                  => /\ calls[p].err = "none"
                     /\ calls[p].result.id = documents[id]._id
                     /\ calls[p].result.filename = documents[id].filename
                     /\ calls[p].result.agent_id = documents[id].agent_id
                     /\ calls[p].result.document_type = documents[id].document_type
                     /\ calls[p].result.file_url = documents[id].s3_url
                     /\ calls[p].result.file_size = documents[id].file_size

\* the agent as the upload of task p read it when it started
AgentReadAtStart(p) == get_agent_by_id(calls[p].pre.agents, calls[p].arg.agent_id).val

\* the step taken is the successful save_agent that ends a request of task p
SavesAgent(p, pc) ==
    /\ calls[p].pc = pc
    /\ calls'[p].pc = "done"
    /\ calls'[p].err = "none"

\* C26: an upload saves the whole agent it read before its own writes with
\* that counter plus 1, whatever the collection holds at the time of the
\* save; a deleteDocument reads the agent once, lowers that counter and
\* saves that agent whole.  Nothing re-reads the stored counter, so of two
\* interleaved requests the later save overwrites the earlier one.
C26_ReadModifyWrite ==
    [][\A p \in Procs :
        /\ SavesAgent(p, "u_save_agent")
           => /\ agents' = Put(agents, calls[p].arg.agent_id,
                               AgentToModel(IncrementCount(AgentReadAtStart(p))))
              /\ documents' = documents
        /\ (calls[p].pc = "dd_get_agent" /\ calls'[p].pc = "dd_blob")
           => calls'[p].agent = get_agent_by_id(agents, calls[p].document.agent_id).val
        /\ (calls[p].pc = "dd_delete" /\ calls'[p].pc = "dd_save_agent")
           => calls'[p].agent = DecrementCount(calls[p].agent)
        /\ SavesAgent(p, "dd_save_agent")
           => /\ agents' = Put(agents, calls[p].agent.id, AgentToModel(calls[p].agent))
              /\ documents' = documents]_vars

\* two uploads of different file names to the agent without documents, each
\* started before the other had saved anything, have both returned: two
\* rows, stored counter 1
C26_Witness ==
    /\ \A p \in Procs :
        /\ IsUpload(p) /\ Returned(p)
        /\ calls[p].arg.agent_id = 1
        /\ calls[p].pre.documents = Empty
        /\ calls[p].pre.agents[1].documents_count = 0
        /\ calls[p].document.id \in DOMAIN documents
    /\ calls["p1"].arg.filename # calls["p2"].arg.filename
    /\ count_by_agent_id(documents, 1) = 2
    /\ agents[1].documents_count = 1

\* two deleteDocument calls on the two documents of the agent, each started
\* before the other had deleted anything, have both returned true: no row is
\* left, the stored counter went from 1 to 0
C26_DeleteRace ==
    /\ \A p \in Procs :
        /\ IsDeleteDocument(p) /\ Returned(p)
        /\ calls[p].result = TRUE
        /\ count_by_agent_id(calls[p].pre.documents, 1) = 2
        /\ calls[p].pre.agents[1].documents_count = 1
    /\ calls["p1"].arg.document_id # calls["p2"].arg.document_id
    /\ count_by_agent_id(documents, 1) = 0
    /\ agents[1].documents_count = 0

\* tasks p and q serve uploads to the same key that have both ended after
\* writing their blob, and neither found a row for the key when it started
SameKeyRace(p, q) ==
    /\ p # q
    /\ IsUpload(p) /\ Done(p) /\ BlobWritten(p)
    /\ IsUpload(q) /\ Done(q) /\ BlobWritten(q)
    /\ UploadKey(calls[p].arg) = UploadKey(calls[q].arg)
    /\ RowsWithKey(calls[p].pre.documents, p) = {}
    /\ RowsWithKey(calls[q].pre.documents, q) = {}

\* the errors with which the save of the document row can end
PersistenceErrors == {"DuplicateKeyError", "DatabaseError", "Exception"}

\* C27: when two uploads of the same file name to the same agent interleave,
\* every blob write replaces what the key holds (the bytes of the later
\* write remain); the upload that comes to save its row when the key already
\* has one ends there with a persistence error, writes no row and does not
\* save the agent; so the key never has more than one row.
C27_SameNameRace ==
    [][\A p \in Procs :
        /\ \A i, j \in DOMAIN documents' :
                documents'[i].s3_key = documents'[j].s3_key => i = j
        /\ (/\ calls[p].pc = "u_blob"
            /\ calls'[p].pc # "u_blob"
            /\ "upload_file" \notin calls'[p].faults)
           => /\ UploadKey(calls[p].arg) \in DOMAIN bucket'
              /\ bucket'[UploadKey(calls[p].arg)].body = calls[p].arg.file
        /\ (/\ calls[p].pc = "u_save_doc"
            /\ calls'[p].pc # "u_save_doc"
            /\ RowsWithKey(documents, p) # {})
           => /\ calls'[p].pc = "done"
              /\ calls'[p].err \in PersistenceErrors
              /\ calls'[p].nAgentSave = 0
              /\ documents' = documents
              /\ agents' = agents]_vars

\* both uploads of r.pdf wrote their blob; the first task has its row and
\* returned, the second was refused by the index, and the bytes under the
\* key are those of the second
C27_Witness ==
    /\ SameKeyRace("p1", "p2")
    /\ Returned("p1")
    /\ calls["p2"].err = "DuplicateKeyError"
    /\ calls["p2"].nAgentSave = 0
    /\ calls["p1"].arg.file # calls["p2"].arg.file
    /\ bucket[UploadKey(calls["p1"].arg)].body = calls["p2"].arg.file
    /\ RowsWithKey(documents, "p1") = {calls["p1"].document.id}
    /\ agents[1].documents_count = 1

\* the request of task p is a deleteAgent
IsDeleteAgent(p) == calls[p].op = "deleteAgent" /\ calls[p].pc # "idle"

\* no request is in flight: every task is idle or has its answer
AllQuiet == \A q \in Procs : calls[q].pc \in {"idle", "done"}

\* C28: once a deleteAgent has returned true and no request is in flight
\* any more, the agent id has no agent record and no document row, however
\* the deleteAgent was interleaved with uploads to that agent.
C28_DeleteAgentIsFinal ==
    \A p \in Procs :
        (IsDeleteAgent(p) /\ Returned(p) /\ calls[p].result = TRUE /\ AllQuiet)
        => /\ calls[p].arg.agent_id \notin DOMAIN agents
           /\ RowsOfAgent(documents, calls[p].arg.agent_id) = {}

C30_RowsDeleteFailure ==
    \A p \in Procs :
        (IsDeleteAgent(p) /\ Done(p) /\ "delete_by_agent_id" \in calls[p].faults)
        => /\ calls[p].err = "DatabaseError"
           /\ calls[p].nBlob = 1
           /\ agents = calls[p].pre.agents
           /\ calls[p].arg.agent_id \in DOMAIN agents
           /\ documents = calls[p].pre.documents
           /\ DOMAIN bucket \subseteq DOMAIN calls[p].pre.bucket
           /\ "delete_agent" \notin calls[p].faults

\* the rows delete of a deleteAgent has failed after delete_folder removed
\* the blobs: the agent and its row are there, the blob of the row is not
C30_Witness ==
    \E p \in Procs :
        /\ IsDeleteAgent(p) /\ Done(p)
        /\ calls[p].faults = {"delete_by_agent_id"}
        /\ calls[p].err = "DatabaseError"
        /\ calls[p].arg.agent_id \in DOMAIN agents
        /\ RowsOfAgent(documents, calls[p].arg.agent_id) # {}
        /\ \A i \in RowsOfAgent(documents, calls[p].arg.agent_id) :
            /\ documents[i].s3_key \in DOMAIN calls[p].pre.bucket
            /\ documents[i].s3_key \notin DOMAIN bucket

\* C31: when the save_agent at the end of an upload fails, the upload ends
\* with that error after one attempt; the blob and the document row it wrote
\* are there and the agent record is as the upload found it, so a stored
\* counter that equalled the number of rows is now one less than it.
C31_CounterSaveFailure ==
    \A p \in Procs :
        (IsUpload(p) /\ Done(p) /\ "save_agent" \in calls[p].faults)
        => LET a == calls[p].arg.agent_id
               key == UploadKey(calls[p].arg)
           IN  /\ calls[p].err = "DatabaseError"
               /\ calls[p].nAgentSave = 1
               /\ key \in DOMAIN bucket
               /\ bucket[key].body = calls[p].arg.file
               /\ calls[p].document.id \in DOMAIN documents
               /\ documents[calls[p].document.id].s3_key = key
               /\ agents = calls[p].pre.agents
               /\ count_by_agent_id(documents, a)
                    = count_by_agent_id(calls[p].pre.documents, a) + 1
               /\ calls[p].pre.agents[a].documents_count
                    = count_by_agent_id(calls[p].pre.documents, a)
                  => agents[a].documents_count = count_by_agent_id(documents, a) - 1

\* the second upload to an agent failed at its save_agent: two rows, the
\* blob of the second one, stored counter 1
C31_Witness ==
    \E p \in Procs :
        /\ IsUpload(p) /\ Done(p)
        /\ calls[p].faults = {"save_agent"}
        /\ calls[p].err = "DatabaseError"
        /\ UploadKey(calls[p].arg) \in DOMAIN bucket
        /\ UploadKey(calls[p].arg) \notin DOMAIN calls[p].pre.bucket
        /\ count_by_agent_id(calls[p].pre.documents, calls[p].arg.agent_id) = 1
        /\ count_by_agent_id(documents, calls[p].arg.agent_id) = 2
        /\ agents[calls[p].arg.agent_id].documents_count = 1

\* the first of the three checks of an upload that its request violates,
\* in the order agent record, extension, size
FirstViolatedCheck(p) ==
    IF ~UploadAgentExisted(p) THEN "AgentNotFound"
    ELSE IF ExtensionOf(calls[p].arg.filename) \notin SupportedExtensions
         THEN "InvalidFileType"
    ELSE IF calls[p].arg.file_size > 20 * 1024 * 1024 THEN "FileSizeExceeded"
    ELSE "none"

\* C32: an upload checks the agent record, then the extension, then the
\* size, all before upload_file: an upload that violates one of them ends
\* with the error of the first one it violates, and an upload that ends with
\* one of the three errors has called no store and changed nothing.
C32_CheckOrder ==
    \A p \in Procs :
        IsUpload(p)
        => /\ FirstViolatedCheck(p) # "none"
              => /\ Done(p)
                 /\ calls[p].err = FirstViolatedCheck(p)
           /\ (Done(p) /\ calls[p].err \in
                    {"AgentNotFound", "InvalidFileType", "FileSizeExceeded"})
              => /\ calls[p].err = FirstViolatedCheck(p)
                 /\ NoWrites(p)
                 /\ StoresUntouched(p)

\* C33: an upload that ends with an error leaves the bucket as the request
\* found it, and an upload that declares no bytes is refused without a call
\* to upload_file.
C33_FailedUploadLeavesBlobs ==
    \A p \in Procs :
        (IsUpload(p) /\ Done(p) /\ calls[p].err # "none")
        => /\ bucket = calls[p].pre.bucket
           /\ calls[p].arg.file_size <= 0 => calls[p].nBlob = 0

\* ---------------------------------------------------------------------
\* A document row whose agent is gone: an upload and a deleteAgent of the
\* same agent interleave, then the row is deleted
\* ---------------------------------------------------------------------
MaxOrphanCalls == 3

InitOrphan ==
    /\ agents = (1 :> AgentToModel(RaceAgent))
    /\ documents = Empty
    /\ bucket = RaceBucket({})
    /\ nextAgentId = 1
    /\ nextDocId = 0
    /\ clock = 0
    /\ served = 0
    /\ clean = TRUE
    /\ calls = [p \in Procs |-> Idle]

OrphanUploadDTOs == {RaceDTO(LoadedBase + 1)}
OrphanDeleteIds == {1}

AcceptOrphan ==
    /\ served < MaxOrphanCalls
    /\ served' = served + 1

NextOrphan ==
    \/ \E p \in Procs : AcceptOrphan /\ UploadStart(p, OrphanUploadDTOs) /\ Track(p)
    \/ \E p \in Procs : Step /\ UploadBlob(p) /\ Track(p)
    \/ \E p \in Procs : Step /\ UploadSaveDocument(p) /\ Track(p)
    \/ \E p \in Procs : Step /\ UploadSaveAgent(p) /\ Track(p)
    \/ \E p \in Procs : AcceptOrphan /\ DeleteDocumentStart(p, OrphanDeleteIds) /\ Track(p)
    \/ \E p \in Procs : Step /\ DeleteDocumentGetAgent(p) /\ Track(p)
    \/ \E p \in Procs : Step /\ DeleteDocumentBlob(p) /\ Track(p)
    \/ \E p \in Procs : Step /\ DeleteDocumentDelete(p) /\ Track(p)
    \/ \E p \in Procs : Step /\ DeleteDocumentSaveAgent(p) /\ Track(p)
    \/ \E p \in Procs : AcceptOrphan /\ DeleteAgentStart(p, {1}) /\ Track(p)
    \/ \E p \in Procs : Step /\ DeleteAgentFind(p) /\ Track(p)
    \/ \E p \in Procs : Step /\ DeleteAgentFolder(p) /\ Track(p)
    \/ \E p \in Procs : Step /\ DeleteAgentDeleteDocuments(p) /\ Track(p)
    \/ \E p \in Procs : Step /\ DeleteAgentDeleteAgent(p) /\ Track(p)
    \/ \E p \in Procs : Step /\ Finish(p) /\ Track(p)

SpecOrphan == InitOrphan /\ [][NextOrphan]_vars

\* C34: a deleteDocument that finds the row and then no record of the
\* row's agent ends with AgentNotFound at that step, having called neither
\* delete_file nor the repository's delete; the step changes no store, so the
\* row and its object stay as they were.
C34_OwnerAbsent ==
    [][\A p \in Procs :
        (/\ calls[p].pc = "dd_get_agent"
         /\ calls'[p].pc # "dd_get_agent"
         /\ calls[p].document.agent_id \notin DOMAIN agents)
        => /\ calls'[p].pc = "done"
           /\ calls'[p].err = "AgentNotFound"
           /\ calls'[p].nBlob = 0
           /\ calls'[p].nAgentSave = 0
           /\ calls'[p].faults = {}
           /\ UNCHANGED <<agents, documents, bucket>>]_vars

\* the deleteDocument of a row without agent has ended with AgentNotFound;
\* the row and its object are in the stores
C34_Witness ==
    \E p \in Procs :
        /\ IsDeleteDocument(p) /\ Done(p)
        /\ calls[p].err = "AgentNotFound"
        /\ agents = Empty
        /\ calls[p].arg.document_id \in DOMAIN documents
        /\ documents[calls[p].arg.document_id].s3_key \in DOMAIN bucket
        /\ \A q \in Procs \ {p} : calls[q].pc = "idle"

\* what tells a step from a stuttering step: every step of the tasks moves
\* a task to another position or lets time pass
progress ==
    <<agents, documents, bucket, nextAgentId, nextDocId, clock, served, clean,
      [p \in Procs |-> calls[p].pc]>>

\* the repository's delete of the deleteDocument c answered True
DeleteAnsweredTrue(c) ==
    /\ c.op = "deleteDocument"
    /\ \/ c.pc = "dd_save_agent"
       \/ c.pc = "done" /\ c.nAgentSave = 1

\* C35: deleteDocument returns what the repository's delete answered and
\* saves the decremented agent only after the answer True: the delete step
\* answers True exactly when it removes the row, a call that returns False
\* has saved no agent and a call that returns True has saved it once; of two
\* deleteDocument calls on the same id, however their steps interleave, at
\* most one gets the answer True and at most one saves the agent.
C35_DeleteOnce ==
    [][/\ \A p \in Procs :
            (/\ calls[p].pc = "dd_delete"
             /\ calls'[p].pc # "dd_delete"
             /\ "delete" \notin calls'[p].faults)
            => /\ calls[p].arg.document_id \notin DOMAIN documents'
               /\ IF calls[p].arg.document_id \in DOMAIN documents
                  THEN /\ calls'[p].pc = "dd_save_agent"
                       /\ calls'[p].result = TRUE
                       /\ calls'[p].agent.documents_count
                            = Max(0, calls[p].agent.documents_count - 1)
                  ELSE /\ calls'[p].pc = "done"
                       /\ calls'[p].err = "none"
                       /\ calls'[p].result = FALSE
                       /\ documents' = documents
       /\ \A p \in Procs :
            (IsDeleteDocument(p) /\ Returned(p))'
            => /\ calls'[p].result \in BOOLEAN
               /\ calls'[p].nAgentSave = IF calls'[p].result THEN 1 ELSE 0
       /\ \A p, q \in Procs :
            (/\ p # q
             /\ IsDeleteDocument(p)' /\ IsDeleteDocument(q)'
             /\ calls'[p].arg.document_id = calls'[q].arg.document_id)
            => /\ ~(DeleteAnsweredTrue(calls'[p]) /\ DeleteAnsweredTrue(calls'[q]))
               /\ calls'[p].nAgentSave + calls'[q].nAgentSave <= 1]_progress

\* two deleteDocument calls on the same row were both past find_by_id
\* before either deleted: one returned True and saved the agent, the other
\* returned False and saved nothing
C35_Witness ==
    \E p, q \in Procs :
        /\ p # q
        /\ IsDeleteDocument(p) /\ IsDeleteDocument(q)
        /\ calls[p].arg.document_id = calls[q].arg.document_id
        /\ calls[q].arg.document_id \in DOMAIN calls[q].pre.documents
        /\ Returned(p) /\ calls[p].result = TRUE /\ calls[p].nAgentSave = 1
        /\ Returned(q) /\ calls[q].result = FALSE /\ calls[q].nAgentSave = 0
        /\ calls[q].nBlob = 1

\* C36: the save_agent that ends an upload or a deleteDocument changes only
\* documents_count of the owning agent: the name, prompt, created_at and
\* updated_at stored after the save are the ones stored just before it, also
\* when an updateAgent of that agent has completed since the call read the
\* agent.
C36_OnlyCounterChanges ==
    [][\A p \in Procs :
        (/\ calls[p].pc \in {"u_save_agent", "dd_save_agent"}
         /\ calls'[p].pc = "done"
         /\ calls'[p].err = "none"
         /\ calls[p].agent.id \in DOMAIN agents)
        => LET a == calls[p].agent.id
           IN  /\ a \in DOMAIN agents'
               /\ agents'[a].name = agents[a].name
               /\ agents'[a].prompt = agents[a].prompt
               /\ agents'[a].created_at = agents[a].created_at
               /\ agents'[a].updated_at = agents[a].updated_at]_progress

\* ---------------------------------------------------------------------
\* GetAgentDetailQuery.execute and ListAgentsQuery.execute: they read the
\* stores and write nothing, so each is a function of the state
\* ---------------------------------------------------------------------
\* the AgentResponseDTO of the detail query: documents_count=len(documents)
GetAgentDetail(agent_id) ==
    LET agent == get_agent_by_id(agents, agent_id)
    IN  IF agent.err # "none" THEN [err |-> agent.err, val |-> Null]
        ELSE IF agent.val = Null THEN [err |-> "AgentNotFound", val |-> Null]
        ELSE [err |-> "none",
              val |-> [id |-> agent.val.id, name |-> agent.val.name,
                       prompt |-> agent.val.prompt,
                       documents_count |-> Cardinality(find_by_agent_id(documents, agent_id)),
                       created_at |-> agent.val.created_at,
                       updated_at |-> agent.val.updated_at]]

\* the AgentListItemDTOs of the list query, from get_all (skip 0, every
\* record within the limit): documents_count=agent.documents_count
ListAgents ==
    IF \E i \in DOMAIN agents : AgentToDomain(agents[i]).err # "none"
    THEN [err |-> "ValueError", items |-> {}]
    ELSE [err |-> "none",
          items |-> {[id |-> AgentToDomain(agents[i]).val.id,
                      documents_count |-> AgentToDomain(agents[i]).val.documents_count,
                      created_at |-> AgentToDomain(agents[i]).val.created_at] :
                     i \in DOMAIN agents}]

\* C37: when every request so far was served alone and none failed, the
\* documents_count the detail query reports for an agent is the
\* documents_count the list query reports for it.
C37_DetailEqualsList ==
    (clean /\ AllIdle)
    => \A a \in DOMAIN agents :
        (GetAgentDetail(a).err = "none" /\ ListAgents.err = "none")
        => \A item \in ListAgents.items :
            item.id = a => item.documents_count = GetAgentDetail(a).val.documents_count

\* ---------------------------------------------------------------------
\* The entities and the extension checks called on their own, as the unit
\* tests call them
\* ---------------------------------------------------------------------
PromptBlank == Rep(" ", MIN_PROMPT_LEN)
PromptPaddedShort == <<" ">> \o PromptShort
PureNames == {NameBot, <<" ">>, NameMax, NameTooLong, <<>>}
PurePrompts ==
    {PromptMin, PromptPadded, PromptShort, PromptPaddedShort, PromptBlank,
     Rep("Y", MAX_PROMPT_LEN), Rep("Y", MAX_PROMPT_LEN + 1), <<>>}
PureFileNames ==
    {FileReport, <<" ">> \o FileReport, <<" ">>, <<>>,
     Rep("A", MAX_FILENAME_LEN), Rep("A", MAX_FILENAME_LEN + 1)}
PureSizes == {-100, 0, 1, 1024, MAX_FILE_SIZE, MAX_FILE_SIZE + 1}
PureExtensions ==
    {<<".", "p", "d", "f">>, PDF, <<".", "P", "D", "F">>, <<".", "d", "o", "c", "x">>,
     XLSX, PPTX, TXT, <<".", "c", "s", "v">>, <<".", "e", "x", "e">>,
     <<"u", "n", "k", "n", "o", "w", "n">>, <<>>, None,
     <<"p", ".", "d", "f">>, <<".", ".", "p", "d", "f">>, <<"p", "d", "f", ".">>}

\* Agent.create(name, prompt)
AgentCreate(p, names, prompts) ==
    \E name \in names, prompt \in prompts :
        LET c == NewCall("Agent.create", [name |-> name, prompt |-> prompt])
            agent == AgentNew(nextAgentId + 1, name, prompt, clock, clock, 0)
        IN  /\ calls[p].pc = "idle"
            /\ calls' = [calls EXCEPT ![p] =
                    IF agent.err # "none" THEN Raise(c, agent.err)
                    ELSE Return(c, agent.val)]
            /\ OnlyCalls

\* Document.create(agent_id, filename, document_type, s3_url, s3_key, file_size)
DocumentCreate(p, filenames, sizes) ==
    \E filename \in filenames, file_size \in sizes :
        LET c == NewCall("Document.create", [filename |-> filename, file_size |-> file_size])
            document == DocumentNew(nextDocId + 1, 1, filename, PDF, <<"u">>, <<"k">>,
                                    file_size, clock, clock)
        IN  /\ calls[p].pc = "idle"
            /\ calls' = [calls EXCEPT ![p] =
                    IF document.err # "none" THEN Raise(c, document.err)
                    ELSE Return(c, document.val)]
            /\ OnlyCalls

\* DocumentType.from_extension(e), DocumentType.is_valid_extension(e) and
\* DocumentValidationService._validate_file_type(filename, e) on one value;
\* None.lower() is an AttributeError
ExtensionCheck(p, extensions) ==
    \E e \in extensions :
        LET c == NewCall("extension", [extension |-> e])
        IN  /\ calls[p].pc = "idle"
            /\ calls' = [calls EXCEPT ![p] = Return(c,
                    [from_extension |->
                        IF e = None THEN [err |-> "AttributeError", value |-> <<>>]
                        ELSE IF from_extension(e).ok
                        THEN [err |-> "none", value |-> from_extension(e).value]
                        ELSE [err |-> "ValueError", value |-> <<>>],
                     is_valid_extension |-> is_valid_extension(e),
                     validate_file_type |->
                        IF e = None THEN "AttributeError"
                        ELSE IF service_validate_file_type(e) THEN "UnsupportedFileType"
                        ELSE "none"])]
            /\ OnlyCalls

NextPure ==
    \/ \E p \in Procs : Step /\ AgentCreate(p, PureNames, PurePrompts) /\ Track(p)
    \/ \E p \in Procs : Step /\ DocumentCreate(p, PureFileNames, PureSizes) /\ Track(p)
    \/ \E p \in Procs : Step /\ ExtensionCheck(p, PureExtensions) /\ Track(p)
    \/ \E p \in Procs : Step /\ Finish(p) /\ Track(p)

SpecPure == Init /\ [][NextPure]_vars

\* made of whitespace only (the empty string included)
IsBlank(s) == Strip(s) = <<>>

\* C38: an Agent or Document whose constructor returned holds a prompt of
\* 10 to 2000 characters, a filename of 1 to 100 characters and a size of 1
\* to 20 MiB, all as stored (trimmed); a name, prompt or filename made of
\* whitespace only is refused.
C38_EntityInvariants ==
    \A p \in Procs :
        /\ (Done(p) /\ calls[p].op = "Agent.create")
           => /\ calls[p].err = "none"
                 => Len(calls[p].result.prompt) \in 10..2000
              /\ (IsBlank(calls[p].arg.name) \/ IsBlank(calls[p].arg.prompt))
                 => calls[p].err # "none"
        /\ (Done(p) /\ calls[p].op = "Document.create")
           => /\ calls[p].err = "none"
                 => /\ Len(calls[p].result.filename) \in 1..100
                    /\ calls[p].result.file_size \in 1..(20 * 1024 * 1024)
              /\ IsBlank(calls[p].arg.filename) => calls[p].err # "none"

\* the extension without one leading dot, in lower case
NormalizedExtension(e) ==
    Lower(IF e # <<>> /\ Head(e) = "." THEN Tail(e) ELSE e)

\* C39: from_extension returns the type of the value without its leading
\* dot, in lower case, when that is one of the six extensions, and fails for
\* every other value; is_valid_extension is true exactly when from_extension
\* succeeds, and false for None; the service's file-type check passes for the
\* same values.
C39_ExtensionChecks ==
    \A p \in Procs :
        (Done(p) /\ calls[p].op = "extension")
        => LET e == calls[p].arg.extension
               r == calls[p].result
               accepted == e # None /\ NormalizedExtension(e) \in SupportedExtensions
           IN  /\ (r.from_extension.err = "none") = accepted
               /\ accepted => r.from_extension.value = NormalizedExtension(e)
               /\ r.is_valid_extension = (r.from_extension.err = "none")
               /\ e = None => ~r.is_valid_extension
               /\ e # None => ((r.validate_file_type = "none") = r.is_valid_extension)

====
